---- MODULE Spec2Model ----
(***************************************************************************)
(* Model of CurRate's rate-acquisition core: the CurrencyCache of          *)
(* src/src/currate/cache.py (an OrderedDict kept in LRU order with a lazy  *)
(* TTL check) and the CurrencyConverter of                                 *)
(* src/src/currate/currency_converter.py that sits in front of the fetcher *)
(* of src/src/currate/cbr_parser.py.                                       *)
(*                                                                         *)
(* The specifications share the state:                                     *)
(*   Spec      one caller invoking get / set / cleanup_expired / clear,    *)
(*             each call atomic, with a clock that advances between calls; *)
(*   ConcSpec  several threads, each running one get or set, interleaved   *)
(*             at the granularity of the dictionary operations of the      *)
(*             method bodies (cache.py takes no lock);                     *)
(*   SvcSpec   one caller invoking CurrencyConverter.get_rate / convert;   *)
(*   StubSpec, FetchSpec, CtorSpec  the converter over a patched fetcher,  *)
(*             get_currency_rate over sample responses, the constructor;   *)
(*   SessSpec, FlightSpec  threads in get_session / reset_session, and in  *)
(*             get_rate around the request in flight;                      *)
(*   RetrySpec the retry policy of the session's adapter;                  *)
(*   PoolSpec  several CurrencyConverter instances over the global cache;  *)
(*   GuiSpec   the window of gui.py, its worker threads and root.after,    *)
(*             and GuiLiveSpec, the same under fair scheduling.            *)
(***************************************************************************)
EXTENDS Integers, Sequences, FiniteSets, TLC

VARIABLES
    cache,      \* CurrencyCache._cache: sequence of entries, head = least recently used
    max_size,   \* CurrencyCache._max_size
    ttl,        \* CurrencyCache._ttl, in clock ticks
    now,        \* the value datetime.now() returns
    op,         \* the last call made: [name, key, rate]
    ret,        \* what the last call returned
    pre,        \* _cache as it was when the last call started
    preNow,     \* the clock when the last call started
    touch,      \* the keys in the order of their latest set or successful get, latest last
    th,         \* per thread: the call it runs, its program point and its locals
    ver,        \* the OrderedDict's mutation counter, which its iterators check
    cache0,     \* _cache as it was when the threads started
    use_cache,  \* CurrencyConverter._use_cache
    req,        \* the last converter call: [name, currency, date, amount]
    out,        \* what it returned: [result, rate, error]
    calls,      \* the cache and fetcher calls it made, in order
    conv,       \* the CurrencyConverter instance the caller uses, by number
    stored_by,  \* <<key, converter>>: the converter whose call stored the key's entry
    session,    \* cbr_parser._session: None, or the session object
    session_lock, \* cbr_parser._session_lock: 0 when free, else the thread holding it
    made,       \* create_session_with_retry calls since the last reset_session
    resets,     \* reset_session calls so far
    closed,     \* the sessions on which close() was called
    http,       \* the transport under session.get: the Retry budget left and the attempts made
    widgets,    \* the Tk widgets of CurrencyConverterApp, and the thread that last set them
    scheduled   \* the callbacks handed to root.after that the main loop has yet to run

cacheVars == <<cache, max_size, ttl, now, op, ret, pre, preNow, touch>>

concVars == <<th, ver, cache0>>

svcVars == <<use_cache, req, out, calls, conv, stored_by>>

sessVars == <<session, session_lock, made, resets, closed>>

ioVars == <<http, widgets, scheduled>>

vars == <<cacheVars, concVars, svcVars, sessVars, ioVars>>

\* ---------------------------------------------------------------- bounds
MaxCap == 3     \* capacities 1..MaxCap are explored
MaxTTL == 1     \* TTLs 0..MaxTTL are explored
MaxTime == 2    \* the clock runs 0..MaxTime

Currencies == {"USD", "EUR"}
Dates == {"01.12.2024", "02.12.2024"}
\* the (currency, date) keys the caller uses
Keys == {<<"USD", "01.12.2024">>, <<"EUR", "01.12.2024">>, <<"USD", "02.12.2024">>}
Rates == {1, 2}

\* Optional[float]: None is the empty sequence, a value r is <<r>>.
None == <<>>
Some(r) == <<r>>

Min(a, b) == IF a <= b THEN a ELSE b

\* ------------------------------------------------------- CurrencyCache
\* An entry of the OrderedDict: key -> (rate, cached_at).
Entry(k, r, at) == [key |-> k, rate |-> r, at |-> at]

KeysOf(c) == {c[i].key : i \in 1..Len(c)}

\* `key in self._cache`
Has(c, k) == k \in KeysOf(c)

\* position of key k in the OrderedDict (0 when absent)
IndexOf(c, k) == IF Has(c, k) THEN CHOOSE i \in 1..Len(c) : c[i].key = k ELSE 0

\* self._cache.pop(key) / del self._cache[key]: the dictionary without k
Without(c, k) == SelectSeq(c, LAMBDA e : e.key # k)

\* a TTL test that counts an entry whose age equals the TTL as expired
IsExpired_AtLeast(at, t) == t - at >= ttl

\* the TTL test of get and cleanup_expired: datetime.now() - cached_at > self._ttl
IsExpired(at, t) == t - at > ttl

\* get without the TTL test
CacheGet_NoTTL(c, k, t) ==
    IF ~Has(c, k)
    THEN [cache |-> c, ret |-> None]
    ELSE LET e == c[IndexOf(c, k)]
         IN  [cache |-> Append(Without(c, k), Entry(k, e.rate, e.at)), ret |-> Some(e.rate)]

\* get that answers None for an expired entry and leaves it in the dictionary
CacheGet_KeepExpired(c, k, t) ==
    IF ~Has(c, k)
    THEN [cache |-> c, ret |-> None]
    ELSE LET e == c[IndexOf(c, k)]
         IN  IF IsExpired(e.at, t)
             THEN [cache |-> c, ret |-> None]
             ELSE [cache |-> Append(Without(c, k), Entry(k, e.rate, e.at)), ret |-> Some(e.rate)]

\* get that stamps the entry it returns with the time of the read
CacheGet_Refresh(c, k, t) ==
    IF ~Has(c, k)
    THEN [cache |-> c, ret |-> None]
    ELSE LET e == c[IndexOf(c, k)]
         IN  IF IsExpired(e.at, t)
             THEN [cache |-> Without(c, k), ret |-> None]
             ELSE [cache |-> Append(Without(c, k), Entry(k, e.rate, t)), ret |-> Some(e.rate)]

\* CurrencyCache.get: [cache |-> the dictionary afterwards, ret |-> the result]
CacheGet(c, k, t) ==
    IF ~Has(c, k)
    THEN [cache |-> c, ret |-> None]
    ELSE LET e == c[IndexOf(c, k)]
             popped == Without(c, k)
         IN  IF IsExpired(e.at, t)
             THEN [cache |-> popped, ret |-> None]
             ELSE [cache |-> Append(popped, Entry(k, e.rate, e.at)), ret |-> Some(e.rate)]

\* the first loop of cleanup_expired: the keys whose entry is expired, in dictionary order
ExpiredKeys(c, t) ==
    LET ex == SelectSeq(c, LAMBDA e : IsExpired(e.at, t))
    IN  [i \in 1..Len(ex) |-> ex[i].key]

\* a second loop that stops after the first collected key
DeleteKeys_FirstOnly(c, ks) == IF ks = <<>> THEN c ELSE Without(c, Head(ks))

\* the second loop of cleanup_expired: del self._cache[key] for each collected key
RECURSIVE DeleteKeys(_, _)
DeleteKeys(c, ks) ==
    IF ks = <<>> THEN c ELSE DeleteKeys(Without(c, Head(ks)), Tail(ks))

\* CurrencyCache.cleanup_expired: [cache |-> afterwards, ret |-> len(expired_keys)]
CleanupExpired(c, t) ==
    [cache |-> DeleteKeys(c, ExpiredKeys(c, t)), ret |-> Len(ExpiredKeys(c, t))]

\* popitem(last=True): the most recently used entry goes instead
PopOldest_Newest(c) == SubSeq(c, 1, Len(c) - 1)

\* self._cache.popitem(last=False)
PopOldest(c) == Tail(c)

\* an overflow branch that purges but never evicts
MakeRoom_NoEvict(c, t) == CleanupExpired(c, t).cache

\* an overflow branch that evicts without purging first
MakeRoom_NoCleanup(c, t) == PopOldest(c)

\* the overflow branch of CurrencyCache.set (key new, len >= max_size)
MakeRoom(c, t) ==
    LET cleaned == CleanupExpired(c, t).cache
    IN  IF Len(cleaned) >= max_size THEN PopOldest(cleaned) ELSE cleaned

\* set without the `if key in self._cache` branch
CacheSet_NoUpdate(c, k, r, t) ==
    Append(IF Len(c) >= max_size THEN MakeRoom(c, t) ELSE c, Entry(k, r, t))

\* CurrencyCache.set: the dictionary afterwards
CacheSet(c, k, r, t) ==
    LET base == IF Has(c, k) THEN Without(c, k)
                ELSE IF Len(c) >= max_size THEN MakeRoom(c, t)
                ELSE c
    IN  Append(base, Entry(k, r, t))

\* clear that spares the most recently used entry
CacheClear_KeepNewest(c) == IF c = <<>> THEN c ELSE <<c[Len(c)]>>

\* CurrencyCache.clear
CacheClear(c) == <<>>

\* CurrencyCache.size
Size(c) == Len(c)

\* the module as imported: no session yet, the lock free
NoSession == session = None /\ session_lock = 0 /\ made = 0 /\ resets = 0 /\ closed = {}

\* no request on the wire
NoTraffic ==
    http = [state |-> "idle", method |-> "", total |-> 0, attempts |-> <<>>, result |-> None]

\* no window: CurrencyConverterApp has not been constructed
NoWindow == widgets = <<>> /\ scheduled = <<>>

\* --------------------------------------------- one caller, atomic calls
Init ==
    /\ NoSession /\ NoTraffic /\ NoWindow
    /\ cache = <<>>
    /\ max_size \in 1..MaxCap
    /\ ttl \in 0..MaxTTL
    /\ now = 0
    /\ op = [name |-> "init", key |-> <<"", "">>, rate |-> 0]
    /\ ret = None
    /\ pre = <<>>
    /\ preNow = 0
    /\ touch = <<>>
    /\ th = <<>>
    /\ ver = 0
    /\ cache0 = <<>>
    /\ use_cache = TRUE
    /\ conv = 1
    /\ stored_by = {}
    /\ req = [name |-> "init", currency |-> <<>>, date |-> <<>>, amount |-> 0]
    /\ out = [result |-> None, rate |-> None, error |-> None, raised |-> None]
    /\ calls = <<>>

\* the touch order after key k was set or read successfully
Touched(k) == Append(SelectSeq(touch, LAMBDA x : x # k), k)

Called(name, k, r) ==
    /\ op' = [name |-> name, key |-> k, rate |-> r]
    /\ pre' = cache
    /\ preNow' = now
    /\ UNCHANGED <<max_size, ttl, now, concVars, svcVars, sessVars, ioVars>>

Get(k) ==
    /\ cache' = CacheGet(cache, k, now).cache
    /\ ret' = CacheGet(cache, k, now).ret
    /\ touch' = IF CacheGet(cache, k, now).ret # None THEN Touched(k) ELSE touch
    /\ Called("get", k, 0)

Set(k, r) ==
    /\ cache' = CacheSet(cache, k, r, now)
    /\ ret' = None
    /\ touch' = Touched(k)
    /\ Called("set", k, r)

Cleanup ==
    /\ cache' = CleanupExpired(cache, now).cache
    /\ ret' = Some(CleanupExpired(cache, now).ret)
    /\ UNCHANGED touch
    /\ Called("cleanup_expired", <<"", "">>, 0)

Clear ==
    /\ cache' = CacheClear(cache)
    /\ ret' = None
    /\ UNCHANGED touch
    /\ Called("clear", <<"", "">>, 0)

\* time passes between two calls
Tick ==
    /\ now < MaxTime
    /\ now' = now + 1
    /\ UNCHANGED <<cache, max_size, ttl, op, ret, pre, preNow, touch, concVars, svcVars,
                   sessVars, ioVars>>

Next ==
    \/ \E k \in Keys : Get(k)
    \/ \E k \in Keys, r \in Rates : Set(k, r)
    \/ Cleanup
    \/ Clear
    \/ Tick


Spec == Init /\ [][Next]_vars

\* ------------------------------- any capacity the constructor accepts (cache.py)
\* __init__ stores max_size as given: zero and negative capacities construct too
CtorInit ==
    /\ NoSession /\ NoTraffic /\ NoWindow
    /\ cache = <<>>
    /\ max_size \in (0 - 1)..MaxCap
    /\ ttl \in 0..MaxTTL
    /\ now = 0
    /\ op = [name |-> "init", key |-> <<"", "">>, rate |-> 0]
    /\ ret = None
    /\ pre = <<>>
    /\ preNow = 0
    /\ touch = <<>>
    /\ th = <<>>
    /\ ver = 0
    /\ cache0 = <<>>
    /\ use_cache = TRUE
    /\ conv = 1
    /\ stored_by = {}
    /\ req = [name |-> "init", currency |-> <<>>, date |-> <<>>, amount |-> 0]
    /\ out = [result |-> None, rate |-> None, error |-> None, raised |-> None]
    /\ calls = <<>>

\* set reaches popitem(last=False) on an empty dictionary
SetRaises(c, k, t) ==
    /\ ~Has(c, k)
    /\ Len(c) >= max_size
    /\ Len(CleanupExpired(c, t).cache) >= max_size
    /\ CleanupExpired(c, t).cache = <<>>

\* set when popitem raises KeyError: the cleanup has run, nothing is inserted
SetKeyError(k, r) ==
    /\ SetRaises(cache, k, now)
    /\ cache' = CleanupExpired(cache, now).cache
    /\ ret' = None
    /\ op' = [name |-> "set", key |-> k, rate |-> r]
    /\ pre' = cache
    /\ preNow' = now
    /\ out' = [out EXCEPT !.raised = Some("KeyError")]
    /\ UNCHANGED <<max_size, ttl, now, touch, concVars, use_cache, req, calls, conv, stored_by,
                   sessVars, ioVars>>

\* set when it returns
SetReturns(k, r) == ~SetRaises(cache, k, now) /\ Set(k, r)

CtorNext ==
    \/ \E k \in Keys : Get(k)
    \/ \E k \in Keys, r \in Rates : SetReturns(k, r)
    \/ \E k \in Keys, r \in Rates : SetKeyError(k, r)
    \/ Cleanup
    \/ Clear
    \/ Tick

CtorSpec == CtorInit /\ [][CtorNext]_vars

\* ------------------------------------- several threads, no lock (cache.py)
\* CurrencyCache holds no lock, so a thread switch can fall between any two
\* dictionary operations of a method.  Each thread runs one call; a step is one
\* operation on the shared OrderedDict together with the local computation
\* that follows it.
Threads == {1, 2}

NoKey == <<>>

Calls ==
    {[name |-> "get", key |-> k, rate |-> 0] : k \in Keys}
        \cup {[name |-> "set", key |-> k, rate |-> 2] : k \in Keys}
        \cup {[name |-> "cleanup_expired", key |-> NoKey, rate |-> 0]}

\* the dictionaries a single caller can have left behind at time MaxTime
\* with at most n entries
RECURSIVE Prefilled(_)
Prefilled(n) ==
    IF n = 0 THEN {<<>>}
    ELSE Prefilled(n - 1) \cup
         UNION {{<<Entry(k, 1, at)>> \o rest : k \in Keys \ KeysOf(rest), at \in {0, MaxTime}} :
                   rest \in Prefilled(n - 1)}

Returned(v) == [kind |-> "return", val |-> v]
Raised(e) == [kind |-> "raise", val |-> e]

\* a thread's frame at the start of its call
Frame(call) ==
    [pc |-> IF call.name = "get" THEN "get_in"
            ELSE IF call.name = "set" THEN "set_in"
            ELSE "cleanup_iter",
     call |-> call,
     e |-> Entry(NoKey, 0, 0),          \* rate, cached_at of get
     cur |-> NoKey, st |-> 0, sz |-> 0, \* the items() iterator of cleanup_expired
     exp |-> <<>>,                      \* expired_keys
     n |-> 0,                           \* len(expired_keys)
     res |-> Returned(None)]

ConcInit ==
    /\ NoSession /\ NoTraffic /\ NoWindow
    /\ max_size \in 1..MaxCap
    /\ ttl = MaxTTL
    /\ now = MaxTime
    /\ cache \in Prefilled(max_size)
    /\ cache0 = cache
    /\ ver = 0
    /\ th \in [Threads -> {Frame(c) : c \in Calls}]
    /\ op = [name |-> "init", key |-> <<"", "">>, rate |-> 0]
    /\ ret = None
    /\ pre = <<>>
    /\ preNow = 0
    /\ touch = <<>>
    /\ use_cache = TRUE
    /\ conv = 1
    /\ stored_by = {}
    /\ req = [name |-> "init", currency |-> <<>>, date |-> <<>>, amount |-> 0]
    /\ out = [result |-> None, rate |-> None, error |-> None, raised |-> None]
    /\ calls = <<>>

Frozen ==
    UNCHANGED <<max_size, ttl, now, op, ret, pre, preNow, touch, cache0, svcVars, sessVars, ioVars>>

Done(t, res) == th' = [th EXCEPT ![t].pc = "done", ![t].res = res]
Goto(t, pc) == th' = [th EXCEPT ![t].pc = pc]

\* the key after k in dictionary order, NoKey at the end
NextKey(c, k) ==
    IF IndexOf(c, k) < Len(c) THEN c[IndexOf(c, k) + 1].key ELSE NoKey

\* self._cache[key] = value: a present key keeps its position, a new one is appended
SetItem(c, k, r, at) ==
    IF Has(c, k)
    THEN [c EXCEPT ![IndexOf(c, k)] = Entry(k, r, at)]
    ELSE Append(c, Entry(k, r, at))

\* get, line 49: if key not in self._cache: return None
GetIn(t) ==
    /\ th[t].pc = "get_in"
    /\ IF Has(cache, th[t].call.key) THEN Goto(t, "get_pop") ELSE Done(t, Returned(None))
    /\ UNCHANGED <<cache, ver>>
    /\ Frozen

\* get, lines 53-57: rate, cached_at = self._cache.pop(key), then the TTL test
GetPop(t) ==
    /\ th[t].pc = "get_pop"
    /\ LET k == th[t].call.key IN
       IF ~Has(cache, k)
       THEN Done(t, Raised("KeyError")) /\ UNCHANGED <<cache, ver>>
       ELSE LET e == cache[IndexOf(cache, k)] IN
            /\ cache' = Without(cache, k)
            /\ ver' = ver + 1
            /\ IF IsExpired(e.at, now)
               THEN Done(t, Returned(None))
               ELSE th' = [th EXCEPT ![t].pc = "get_put", ![t].e = e]
    /\ Frozen

\* get, lines 60-61: self._cache[key] = (rate, cached_at); return rate
GetPut(t) ==
    /\ th[t].pc = "get_put"
    /\ cache' = SetItem(cache, th[t].call.key, th[t].e.rate, th[t].e.at)
    /\ ver' = IF Has(cache, th[t].call.key) THEN ver ELSE ver + 1
    /\ Done(t, Returned(Some(th[t].e.rate)))
    /\ Frozen

\* set, line 78: if key in self._cache
SetIn(t) ==
    /\ th[t].pc = "set_in"
    /\ IF Has(cache, th[t].call.key) THEN Goto(t, "set_pop") ELSE Goto(t, "set_len")
    /\ UNCHANGED <<cache, ver>>
    /\ Frozen

\* set, line 79: self._cache.pop(key)
SetPop(t) ==
    /\ th[t].pc = "set_pop"
    /\ IF ~Has(cache, th[t].call.key)
       THEN Done(t, Raised("KeyError")) /\ UNCHANGED <<cache, ver>>
       ELSE /\ cache' = Without(cache, th[t].call.key)
            /\ ver' = ver + 1
            /\ Goto(t, "set_put")
    /\ Frozen

\* set, line 80: elif len(self._cache) >= self._max_size
SetLen(t) ==
    /\ th[t].pc = "set_len"
    /\ IF Len(cache) >= max_size THEN Goto(t, "cleanup_iter") ELSE Goto(t, "set_put")
    /\ UNCHANGED <<cache, ver>>
    /\ Frozen

\* cleanup_expired, lines 111-114: the iterator over self._cache.items() is made
CleanupIter(t) ==
    /\ th[t].pc = "cleanup_iter"
    /\ th' = [th EXCEPT ![t].pc = "cleanup_next",
                        ![t].cur = IF cache = <<>> THEN NoKey ELSE cache[1].key,
                        ![t].st = ver, ![t].sz = Len(cache), ![t].exp = <<>>]
    /\ UNCHANGED <<cache, ver>>
    /\ Frozen

\* cleanup_expired, lines 114-116: one turn of the first loop.  The iterator
\* stops when it has no current key, and raises RuntimeError when the
\* dictionary was mutated since it was made.
CleanupNext(t) ==
    /\ th[t].pc = "cleanup_next"
    /\ IF th[t].cur = NoKey
       THEN Goto(t, "cleanup_del")
       ELSE IF ver # th[t].st \/ Len(cache) # th[t].sz
       THEN Done(t, Raised("RuntimeError"))
       ELSE LET e == cache[IndexOf(cache, th[t].cur)] IN
            th' = [th EXCEPT ![t].cur = NextKey(cache, e.key),
                             ![t].exp = IF IsExpired(e.at, now) THEN Append(@, e.key) ELSE @]
    /\ UNCHANGED <<cache, ver>>
    /\ Frozen

\* cleanup_expired, lines 118-121: one turn of the second loop, then the return
\* (to the caller, or into set at line 85)
CleanupDel(t) ==
    /\ th[t].pc = "cleanup_del"
    /\ IF th[t].exp = <<>>
       THEN /\ IF th[t].call.name = "set"
               THEN Goto(t, "set_len2")
               ELSE Done(t, Returned(Some(th[t].n)))
            /\ UNCHANGED <<cache, ver>>
       ELSE IF ~Has(cache, Head(th[t].exp))
       THEN Done(t, Raised("KeyError")) /\ UNCHANGED <<cache, ver>>
       ELSE /\ cache' = Without(cache, Head(th[t].exp))
            /\ ver' = ver + 1
            /\ th' = [th EXCEPT ![t].exp = Tail(@), ![t].n = @ + 1]
    /\ Frozen

\* set, line 85: if len(self._cache) >= self._max_size
SetLen2(t) ==
    /\ th[t].pc = "set_len2"
    /\ IF Len(cache) >= max_size THEN Goto(t, "set_popitem") ELSE Goto(t, "set_put")
    /\ UNCHANGED <<cache, ver>>
    /\ Frozen

\* set, line 86: self._cache.popitem(last=False)
SetPopItem(t) ==
    /\ th[t].pc = "set_popitem"
    /\ IF cache = <<>>
       THEN Done(t, Raised("KeyError")) /\ UNCHANGED <<cache, ver>>
       ELSE /\ cache' = PopOldest(cache)
            /\ ver' = ver + 1
            /\ Goto(t, "set_put")
    /\ Frozen

\* set, line 89: self._cache[key] = (rate, datetime.now())
SetPut(t) ==
    /\ th[t].pc = "set_put"
    /\ cache' = SetItem(cache, th[t].call.key, th[t].call.rate, now)
    /\ ver' = IF Has(cache, th[t].call.key) THEN ver ELSE ver + 1
    /\ Done(t, Returned(None))
    /\ Frozen

ConcNext ==
    \E t \in Threads :
        \/ GetIn(t)
        \/ GetPop(t)
        \/ GetPut(t)
        \/ SetIn(t)
        \/ SetPop(t)
        \/ SetLen(t)
        \/ CleanupIter(t)
        \/ CleanupNext(t)
        \/ CleanupDel(t)
        \/ SetLen2(t)
        \/ SetPopItem(t)
        \/ SetPut(t)

ConcSpec == ConcInit /\ [][ConcNext]_vars

AllDone == \A t \in Threads : th[t].pc = "done"

\* ------------------------------------------- text (str), as character sequences
DigitChars == <<"0", "1", "2", "3", "4", "5", "6", "7", "8", "9">>
LowerChars == <<"a", "b", "c", "d", "e", "f", "g", "h", "i", "j", "k", "l", "m",
                "n", "o", "p", "q", "r", "s", "t", "u", "v", "w", "x", "y", "z">>
UpperChars == <<"A", "B", "C", "D", "E", "F", "G", "H", "I", "J", "K", "L", "M",
                "N", "O", "P", "Q", "R", "S", "T", "U", "V", "W", "X", "Y", "Z">>

IsDigit(ch) == \E i \in 1..10 : DigitChars[i] = ch
DigitVal(ch) == (CHOOSE i \in 1..10 : DigitChars[i] = ch) - 1

\* str.upper, one character
UpperChar(ch) ==
    IF \E i \in 1..26 : LowerChars[i] = ch
    THEN UpperChars[CHOOSE i \in 1..26 : LowerChars[i] = ch]
    ELSE ch

\* str.upper
Upper(s) == [i \in 1..Len(s) |-> UpperChar(s[i])]

\* str.strip
RECURSIVE LStrip(_)
LStrip(s) == IF s # <<>> /\ Head(s) = " " THEN LStrip(Tail(s)) ELSE s
RECURSIVE RStrip(_)
RStrip(s) == IF s # <<>> /\ s[Len(s)] = " " THEN RStrip(SubSeq(s, 1, Len(s) - 1)) ELSE s
Strip(s) == LStrip(RStrip(s))

\* the fields of s between the dots
RECURSIVE SplitDot(_)
SplitDot(s) ==
    IF \A i \in 1..Len(s) : s[i] # "."
    THEN <<s>>
    ELSE LET i == CHOOSE j \in 1..Len(s) : s[j] = "." /\ \A h \in 1..(j - 1) : s[h] # "."
         IN  <<SubSeq(s, 1, i - 1)>> \o SplitDot(SubSeq(s, i + 1, Len(s)))

AllDigits(s) == s # <<>> /\ \A i \in 1..Len(s) : IsDigit(s[i])

\* int of a digit string
RECURSIVE ToInt(_)
ToInt(s) == IF s = <<>> THEN 0 ELSE 10 * ToInt(SubSeq(s, 1, Len(s) - 1)) + DigitVal(s[Len(s)])

\* ---------------------------------------------------------- CurrencyConverter
\* CurrencyConverter.SUPPORTED_CURRENCIES
SUPPORTED_CURRENCIES == {<<"U", "S", "D">>, <<"E", "U", "R">>}

\* the day datetime.now() falls on when _validate_date runs
Today == [d |-> 15, m |-> 12, y |-> 2024]

IsLeap(y) == (y % 4 = 0 /\ y % 100 # 0) \/ y % 400 = 0
DaysIn(m, y) ==
    IF m = 2 THEN (IF IsLeap(y) THEN 29 ELSE 28)
    ELSE IF m \in {4, 6, 9, 11} THEN 30 ELSE 31

\* datetime.strptime(date, "d.m.Y" directives): the date, or ok = FALSE for
\* ValueError.  Day and month take one or two digits, the year exactly four.
Strptime(s) ==
    LET parts == SplitDot(s)
        bad == [ok |-> FALSE, d |-> 0, m |-> 0, y |-> 0]
    IN  IF Len(parts) # 3 THEN bad
        ELSE IF ~(AllDigits(parts[1]) /\ AllDigits(parts[2]) /\ AllDigits(parts[3])) THEN bad
        ELSE IF ~(Len(parts[1]) <= 2 /\ Len(parts[2]) <= 2 /\ Len(parts[3]) = 4) THEN bad
        ELSE LET d == ToInt(parts[1])
                 mo == ToInt(parts[2])
                 y == ToInt(parts[3])
             IN  IF d >= 1 /\ mo >= 1 /\ mo <= 12 /\ y >= 1 /\ d <= DaysIn(mo, y)
                 THEN [ok |-> TRUE, d |-> d, m |-> mo, y |-> y]
                 ELSE bad

\* parsed_date > datetime.now(): midnight of a day is later than now only for a later day
After(p, q) ==
    \/ p.y > q.y
    \/ p.y = q.y /\ p.m > q.m
    \/ p.y = q.y /\ p.m = q.m /\ p.d > q.d

\* _validate_date without the comparison with datetime.now()
ValidateDate_NoFuture(date) ==
    IF ~Strptime(Strip(date)).ok THEN Some("Nekorrektnyi format daty. Ispolzuite DD.MM.YYYY") ELSE None

\* CurrencyConverter._validate_date: None, or the error message
ValidateDate(date) ==
    LET parsed == Strptime(Strip(date))
    IN  IF ~parsed.ok THEN Some("Nekorrektnyi format daty. Ispolzuite DD.MM.YYYY")
        ELSE IF After(parsed, Today) THEN Some("Data ne mozhet byt v buduschem")
        ELSE None

\* a _normalize_currency that trims and leaves the letter case
NormalizeCurrency_NoUpper(currency) ==
    IF Strip(currency) = <<>> THEN None ELSE Some(Strip(currency))

\* CurrencyConverter._normalize_currency: None for an empty code
NormalizeCurrency(currency) ==
    IF Upper(Strip(currency)) = <<>> THEN None ELSE Some(Upper(Strip(currency)))

\* ------------------------------------------------------------------ cbr_parser
\* the default of get_currency_rate's timeout parameter
DefaultTimeout == 10

\* str.replace(",", ".")
ReplaceComma(s) == [i \in 1..Len(s) |-> IF s[i] = "," THEN "." ELSE s[i]]

\* a leading sign: [neg |-> it is a minus, rest |-> the text after it]
Signed(s) ==
    IF s # <<>> /\ Head(s) \in {"+", "-"}
    THEN [neg |-> Head(s) = "-", rest |-> Tail(s)]
    ELSE [neg |-> FALSE, rest |-> s]

\* int(text): decimal digits with an optional sign, space around them ignored;
\* ok = FALSE for ValueError
ParseInt(s) ==
    LET sg == Signed(Strip(s))
    IN  IF AllDigits(sg.rest)
        THEN [ok |-> TRUE, val |-> IF sg.neg THEN 0 - ToInt(sg.rest) ELSE ToInt(sg.rest)]
        ELSE [ok |-> FALSE, val |-> 0]

RECURSIVE Pow10(_)
Pow10(n) == IF n = 0 THEN 1 ELSE 10 * Pow10(n - 1)

\* the words float() reads as not-a-number and as infinity, in any case
NanWords == {<<"N", "A", "N">>}
InfWords == {<<"I", "N", "F">>, <<"I", "N", "F", "I", "N", "I", "T", "Y">>}

\* float(text) for decimal notation (optional sign, digits, optional point and
\* digits) and for the words nan, inf and infinity, exactly, as num / den:
\* nan is 0 / 0, infinity is 1 / 0 or -1 / 0; ok = FALSE for ValueError
ParseFloat(s) ==
    LET sg == Signed(Strip(s))
        parts == SplitDot(sg.rest)
        bad == [ok |-> FALSE, num |-> 0, den |-> 1]
        sign == IF sg.neg THEN 0 - 1 ELSE 1
    IN  IF Upper(sg.rest) \in NanWords THEN [ok |-> TRUE, num |-> 0, den |-> 0]
        ELSE IF Upper(sg.rest) \in InfWords THEN [ok |-> TRUE, num |-> sign, den |-> 0]
        ELSE IF Len(parts) = 1 /\ AllDigits(parts[1])
        THEN [ok |-> TRUE, num |-> sign * ToInt(parts[1]), den |-> 1]
        ELSE IF /\ Len(parts) = 2
                /\ parts[1] \o parts[2] # <<>>
                /\ \A i \in 1..2 : parts[i] = <<>> \/ AllDigits(parts[i])
        THEN [ok |-> TRUE, num |-> sign * ToInt(parts[1] \o parts[2]),
              den |-> Pow10(Len(parts[2]))]
        ELSE bad

\* the text of an error: the words of its template, with the interpolated
\* values kept apart in args
Message(words, args) == [words |-> words, args |-> args]

\* keyword in message, on the words of the template
Contains(msg, kw) ==
    \E i \in 1..(Len(msg.words) - Len(kw) + 1) : SubSeq(msg.words, i, i + Len(kw) - 1) = kw

Returns(rate) == [ok |-> TRUE, rate |-> rate, cls |-> "", message |-> Message(<<>>, <<>>)]
Raises(cls, msg) == [ok |-> FALSE, rate |-> None, cls |-> cls, message |-> msg]

\* a Valute element; a field is None when the element or its text is missing
Valute(code, nominal, value) == [code |-> code, nominal |-> nominal, value |-> value]

\* what session.get and raise_for_status do: a response body, or an exception
Body(wellformed, root, valutes) ==
    [kind |-> "ok", wellformed |-> wellformed, root |-> root, valutes |-> valutes]
Throws(kind) == [kind |-> kind, wellformed |-> FALSE, root |-> "", valutes |-> <<>>]

\* the value returned as it is, whatever the nominal
Quotient_NoNominal(value, nominal) == [num |-> value.num, den |-> value.den]

\* value / nominal, exactly; the sign of the nominal goes to the numerator, so
\* that infinity keeps its sign
Quotient(value, nominal) ==
    IF nominal < 0
    THEN [num |-> 0 - value.num, den |-> value.den * (0 - nominal)]
    ELSE [num |-> value.num, den |-> value.den * nominal]

\* the "except Exception" clause that wraps every exception that is no CBRParserError
OnException(e) ==
    Raises("CBRParseError",
           Message(<<"Neozhidannaya", "oshibka", "pri", "poluchenii", "kursa:", "{e}">>, <<e>>))

\* the body of the loop for the record whose CharCode matched
RateOf(v, currency) ==
    IF v.nominal = None
    THEN Raises("CBRParseError",
                Message(<<"Element", "Nominal", "ne", "naiden", "dlya", "valyuty", "{currency}">>,
                        <<currency>>))
    ELSE LET nominal == ParseInt(v.nominal[1])
             valueError ==
                 Raises("CBRParseError",
                        Message(<<"Oshibka", "parsinga", "kursa", "valyuty", "{currency}:", "{e}">>,
                                <<currency>>))
         IN  IF ~nominal.ok THEN valueError
             ELSE IF v.value = None
             THEN Raises("CBRParseError",
                         Message(<<"Element", "Value", "ne", "naiden", "dlya", "valyuty",
                                   "{currency}">>, <<currency>>))
             ELSE LET value == ParseFloat(ReplaceComma(Strip(v.value[1])))
                  IN  IF ~value.ok THEN valueError
                      ELSE IF nominal.val = 0
                      THEN OnException("ZeroDivisionError")
                      ELSE Returns(Quotient(value, nominal.val))

\* the first Valute whose CharCode, trimmed, equals the code; 0 when there is none
Matching(valutes, currency) ==
    LET hits == {i \in 1..Len(valutes) :
                    valutes[i].code # None /\ Strip(valutes[i].code[1]) = currency}
    IN  IF hits = {} THEN 0 ELSE CHOOSE i \in hits : \A j \in hits : i <= j

\* the "except Timeout" clause without the timeout in its message
OnTimeout_NoValue(timeout) ==
    Raises("CBRConnectionError",
           Message(<<"Prevysheno", "vremya", "ozhidaniya", "pri", "zaprose", "k", "saitu", "CB",
                     "RF">>, <<>>))

\* the "except requests.exceptions.Timeout" clause
OnTimeout(timeout) ==
    Raises("CBRConnectionError",
           Message(<<"Prevysheno", "vremya", "ozhidaniya", "({timeout}s)", "pri", "zaprose", "k",
                     "saitu", "CB", "RF">>, <<timeout>>))

\* the "except requests.exceptions.ConnectionError" clause
OnConnectionError ==
    Raises("CBRConnectionError",
           Message(<<"Oshibka", "soedineniya", "s", "saitom", "CB", "RF.", "Proverte",
                     "podklyuchenie", "k", "internetu">>, <<>>))

\* an "except HTTPError" clause that raises CBRConnectionError
OnHTTPError_Connection(e) ==
    Raises("CBRConnectionError",
           Message(<<"HTTP", "oshibka", "pri", "zaprose", "k", "CB", "RF:", "{e}">>, <<e>>))

\* the "except requests.exceptions.HTTPError" clause
OnHTTPError(e) ==
    Raises("CBRParseError",
           Message(<<"HTTP", "oshibka", "pri", "zaprose", "k", "CB", "RF:", "{e}">>, <<e>>))

\* raise CBRParseError for a currency the document does not list, with another text
NotListed_OtherText(code) ==
    Raises("CBRParseError",
           Message(<<"Valyuta", "{currency}", "ne", "naiden", "v", "XML", "dannyh">>, <<code>>))

\* line 227: raise CBRParseError for a currency the document does not list
NotListed(code) ==
    Raises("CBRParseError",
           Message(<<"Valyuta", "{currency}", "ne", "naidena", "v", "XML", "dannyh">>, <<code>>))

\* get_currency_rate(currency, date, timeout) when the transport answers resp
GetCurrencyRate(currency, date, timeout, resp) ==
    LET code == Upper(Strip(currency)) IN
    IF resp.kind = "Timeout" THEN OnTimeout(timeout)
    ELSE IF resp.kind = "ConnectionError" THEN OnConnectionError
    ELSE IF resp.kind = "HTTPError" THEN OnHTTPError(resp.kind)
    ELSE IF resp.kind # "ok" THEN OnException(resp.kind)
    ELSE IF ~resp.wellformed
    THEN Raises("CBRParseError",
                Message(<<"Oshibka", "parsinga", "XML", "otveta", "ot", "CB", "RF:", "{e}">>,
                        <<"ParseError">>))
    ELSE IF resp.root # "ValCurs"
    THEN Raises("CBRParseError",
                Message(<<"Neozhidannaya", "struktura", "XML:", "ozhidalsya", "element",
                          "ValCurs,", "poluchen", "{root.tag}">>, <<resp.root>>))
    ELSE IF Matching(resp.valutes, code) = 0 THEN NotListed(code)
    ELSE RateOf(resp.valutes[Matching(resp.valutes, code)], code)

\* CBRConnectionError.get_user_message / CBRParseError.get_user_message
UserMessage(e) ==
    IF e.cls = "CBRConnectionError"
    THEN IF Contains(e.message, <<"Timeout">>) \/ Contains(e.message, <<"vremya", "ozhidaniya">>)
         THEN "Prevysheno vremya ozhidaniya otveta ot servera. Proverte podklyuchenie k internetu."
         ELSE IF \/ Contains(e.message, <<"ConnectionError">>)
                 \/ Contains(e.message, <<"soedineniya">>)
         THEN "Ne udalos podklyuchitsya k serveru CB RF. Proverte podklyuchenie k internetu."
         ELSE "Oshibka soedineniya s serverom. Poprobuite pozzhe."
    ELSE IF Contains(e.message, <<"ne", "naidena">>)
         THEN "Kurs valyuty ne naiden dlya ukazannoi daty."
         ELSE "Oshibka pri obrabotke dannyh s servera. Poprobuite druguyu datu."

USD == <<"U", "S", "D">>
EUR == <<"E", "U", "R">>

\* the answers of the transport to the converter's requests
SvcResponses ==
    {Body(TRUE, "ValCurs",
          <<Valute(Some(USD), Some(<<"1">>), Some(<<"9", "5", ",", "5", "0">>)),
            Valute(Some(EUR), Some(<<"1", "0", "0">>), Some(<<"2", "8", ",", "5", "0">>))>>),
     Body(TRUE, "ValCurs",
          <<Valute(Some(USD), Some(<<"1">>), Some(<<"0", ",", "0", "0">>)),
            Valute(Some(EUR), Some(<<"1">>), Some(<<"-", "1", ",", "5">>))>>),
     Body(TRUE, "ValCurs",
          <<Valute(Some(<<"G", "B", "P">>), Some(<<"1">>), Some(<<"1", "2", "0">>))>>),
     Throws("Timeout")}

\* get_currency_rate replaced by a stub, as the tests patch it
Patched(outcome) == [kind |-> "patched", outcome |-> outcome]

\* the stubs of the tests: a rate, no rate, or a raised error
Stubs ==
    {Patched(Returns([num |-> 95, den |-> 1])),
     Patched(Returns(None)),
     Patched(Raises("CBRConnectionError", Message(<<"Oshibka", "soedineniya">>, <<>>))),
     Patched(Raises("CBRParseError", Message(<<"Oshibka", "parsinga">>, <<>>)))}


\* amount + rate
Times_Plus(amount, rate) == [num |-> amount * rate.den + rate.num, den |-> rate.den]

\* amount * rate
Times(amount, rate) == [num |-> amount * rate.num, den |-> rate.den]

\* the (currency, date) arguments the caller passes
Requests ==
    {[currency |-> <<" ", "u", "s", "d", " ">>,
      date |-> <<" ", "0", "1", ".", "1", "2", ".", "2", "0", "2", "4", " ">>],
     [currency |-> <<"U", "S", "D">>,
      date |-> <<"0", "1", ".", "1", "2", ".", "2", "0", "2", "4">>],
     [currency |-> <<"E", "U", "R">>,
      date |-> <<"0", "1", ".", "1", "2", ".", "2", "0", "2", "4">>],
     [currency |-> <<"U", "S", "D">>,
      date |-> <<"1", ".", "1", "2", ".", "2", "0", "2", "4">>],
     [currency |-> <<"G", "B", "P">>,
      date |-> <<"0", "1", ".", "1", "2", ".", "2", "0", "2", "4">>],
     [currency |-> <<" ">>,
      date |-> <<"0", "1", ".", "1", "2", ".", "2", "0", "2", "4">>],
     [currency |-> <<"U", "S", "D">>,
      date |-> <<"1", "6", ".", "1", "2", ".", "2", "0", "2", "4">>],
     [currency |-> <<"E", "U", "R">>,
      date |-> <<"2", "9", ".", "0", "2", ".", "2", "0", "2", "3">>],
     [currency |-> <<"U", "S", "D">>,
      date |-> <<"2", "0", "2", "4", "-", "1", "2", "-", "0", "1">>]}

CurrencyInputs == {r.currency : r \in Requests}
DateInputs == {r.date : r \in Requests}

\* _normalize_currency, strip and _validate_date on the inputs above, evaluated once
NormalizedOf == [cu \in CurrencyInputs |-> NormalizeCurrency(cu)]
StrippedOf == [d \in DateInputs |-> Strip(d)]
DateErrorOf == [d \in DateInputs |-> ValidateDate(Strip(d))]

\* get_currency_rate(currency, date) on the arguments the converter passes and
\* the answers above, evaluated once
FetchedOf ==
    [x \in SUPPORTED_CURRENCIES \X {StrippedOf[d] : d \in DateInputs} \X SvcResponses |->
        GetCurrencyRate(x[1], x[2], DefaultTimeout, x[3])]

\* the name get_currency_rate as the converter module sees it
Fetcher(currency, date, env) ==
    IF env.kind = "patched" THEN env.outcome ELSE FetchedOf[<<currency, date, env>>]

CacheGetCall(k, r) == [fn |-> "cache.get", key |-> k, ret |-> r]
CacheSetCall(k, r) == [fn |-> "cache.set", key |-> k, ret |-> Some(r)]
\* a call of get_currency_rate and what it did
FetchCall(k, env, outcome) ==
    [fn |-> "get_currency_rate", key |-> k, env |-> env, ret |-> outcome]

Failure(c, msg, log) ==
    [cache |-> c,
     out |-> [result |-> None, rate |-> None, error |-> Some(msg), raised |-> None],
     calls |-> log]

\* the value cache.get returned is not None
IsHit(looked) == looked.ret # None /\ looked.ret[1] # None

\* the rate as the caller receives it
Opt(rate) == IF rate = None THEN None ELSE Some(rate)

\* get_rate that returns the fetched rate without storing it
GetRateImpl_NoStore(c, currency, date, env, t) ==
    LET normalized == NormalizedOf[currency] IN
    IF normalized = None \/ normalized[1] \notin SUPPORTED_CURRENCIES
    THEN Failure(c, "Nepodderzhivaemaya valyuta", <<>>)
    ELSE IF DateErrorOf[date] # None
    THEN Failure(c, DateErrorOf[date][1], <<>>)
    ELSE LET key == <<normalized[1], StrippedOf[date]>>
             looked == IF use_cache THEN CacheGet(c, key, t) ELSE [cache |-> c, ret |-> None]
             log1 == IF use_cache THEN <<CacheGetCall(key, looked.ret)>> ELSE <<>>
             fetched == Fetcher(key[1], key[2], env)
         IN  IF IsHit(looked)
             THEN [cache |-> looked.cache,
                   out |-> [result |-> None, rate |-> looked.ret, error |-> None,
                            raised |-> None],
                   calls |-> log1]
             ELSE IF ~fetched.ok
             THEN Failure(looked.cache, UserMessage(fetched), Append(log1, FetchCall(key, env, fetched)))
             ELSE [cache |-> looked.cache,
                   out |-> [result |-> None, rate |-> Opt(fetched.rate), error |-> None,
                            raised |-> None],
                   calls |-> Append(log1, FetchCall(key, env, fetched))]

\* get_rate that stores a placeholder entry when the fetcher raises
GetRateImpl_StoreOnError(c, currency, date, env, t) ==
    LET normalized == NormalizedOf[currency] IN
    IF normalized = None \/ normalized[1] \notin SUPPORTED_CURRENCIES
    THEN Failure(c, "Nepodderzhivaemaya valyuta", <<>>)
    ELSE IF DateErrorOf[date] # None
    THEN Failure(c, DateErrorOf[date][1], <<>>)
    ELSE LET key == <<normalized[1], StrippedOf[date]>>
             looked == IF use_cache THEN CacheGet(c, key, t) ELSE [cache |-> c, ret |-> None]
             log1 == IF use_cache THEN <<CacheGetCall(key, looked.ret)>> ELSE <<>>
             fetched == Fetcher(key[1], key[2], env)
         IN  IF IsHit(looked)
             THEN [cache |-> looked.cache,
                   out |-> [result |-> None, rate |-> looked.ret, error |-> None,
                            raised |-> None],
                   calls |-> log1]
             ELSE IF ~fetched.ok
             THEN Failure(IF use_cache
                          THEN CacheSet(looked.cache, key, [num |-> 0, den |-> 1], t)
                          ELSE looked.cache,
                          UserMessage(fetched), Append(log1, FetchCall(key, env, fetched)))
             ELSE [cache |-> IF use_cache THEN CacheSet(looked.cache, key, fetched.rate, t)
                             ELSE looked.cache,
                   out |-> [result |-> None, rate |-> Opt(fetched.rate), error |-> None,
                            raised |-> None],
                   calls |-> Append(log1, FetchCall(key, env, fetched))
                                \o (IF use_cache THEN <<CacheSetCall(key, fetched.rate)>> ELSE <<>>)]

\* get_rate that stores the fetched rate in the global cache whatever use_cache says
GetRateImpl_AlwaysStore(c, currency, date, env, t) ==
    LET normalized == NormalizedOf[currency] IN
    IF normalized = None \/ normalized[1] \notin SUPPORTED_CURRENCIES
    THEN Failure(c, "Nepodderzhivaemaya valyuta", <<>>)
    ELSE IF DateErrorOf[date] # None
    THEN Failure(c, DateErrorOf[date][1], <<>>)
    ELSE LET key == <<normalized[1], StrippedOf[date]>>
             looked == IF use_cache THEN CacheGet(c, key, t) ELSE [cache |-> c, ret |-> None]
             log1 == IF use_cache THEN <<CacheGetCall(key, looked.ret)>> ELSE <<>>
             fetched == Fetcher(key[1], key[2], env)
         IN  IF IsHit(looked)
             THEN [cache |-> looked.cache,
                   out |-> [result |-> None, rate |-> looked.ret, error |-> None,
                            raised |-> None],
                   calls |-> log1]
             ELSE IF ~fetched.ok
             THEN Failure(looked.cache, UserMessage(fetched), Append(log1, FetchCall(key, env, fetched)))
             ELSE [cache |-> CacheSet(looked.cache, key, fetched.rate, t),
                   out |-> [result |-> None, rate |-> Opt(fetched.rate), error |-> None,
                            raised |-> None],
                   calls |-> Append(log1, FetchCall(key, env, fetched))
                                \o (IF use_cache THEN <<CacheSetCall(key, fetched.rate)>> ELSE <<>>)]

\* CurrencyConverter.get_rate: [cache |-> afterwards, out |-> returned, calls |-> made]
GetRateImpl(c, currency, date, env, t) ==
    LET normalized == NormalizedOf[currency] IN
    IF normalized = None \/ normalized[1] \notin SUPPORTED_CURRENCIES
    THEN Failure(c, "Nepodderzhivaemaya valyuta", <<>>)
    ELSE IF DateErrorOf[date] # None
    THEN Failure(c, DateErrorOf[date][1], <<>>)
    ELSE LET key == <<normalized[1], StrippedOf[date]>>
             looked == IF use_cache THEN CacheGet(c, key, t) ELSE [cache |-> c, ret |-> None]
             log1 == IF use_cache THEN <<CacheGetCall(key, looked.ret)>> ELSE <<>>
             fetched == Fetcher(key[1], key[2], env)
         IN  IF IsHit(looked)
             THEN [cache |-> looked.cache,
                   out |-> [result |-> None, rate |-> looked.ret, error |-> None,
                            raised |-> None],
                   calls |-> log1]
             ELSE IF ~fetched.ok
             THEN Failure(looked.cache, UserMessage(fetched), Append(log1, FetchCall(key, env, fetched)))
             ELSE [cache |-> IF use_cache THEN CacheSet(looked.cache, key, fetched.rate, t)
                             ELSE looked.cache,
                   out |-> [result |-> None, rate |-> Opt(fetched.rate), error |-> None,
                            raised |-> None],
                   calls |-> Append(log1, FetchCall(key, env, fetched))
                                \o (IF use_cache THEN <<CacheSetCall(key, fetched.rate)>> ELSE <<>>)]

\* CurrencyConverter.convert: [cache |-> afterwards, out |-> returned, calls |-> made]
ConvertImpl(c, amount, from_currency, date, env, t) ==
    LET currency == NormalizedOf[from_currency] IN
    IF currency = None \/ currency[1] \notin SUPPORTED_CURRENCIES
    THEN Failure(c, "Nepodderzhivaemaya valyuta", <<>>)
    ELSE IF amount <= 0
    THEN Failure(c, "Summa dolzhna byt polozhitelnym chislom", <<>>)
    ELSE IF DateErrorOf[date] # None
    THEN Failure(c, DateErrorOf[date][1], <<>>)
    ELSE LET key == <<currency[1], StrippedOf[date]>>
             looked == IF use_cache THEN CacheGet(c, key, t) ELSE [cache |-> c, ret |-> None]
             log1 == IF use_cache THEN <<CacheGetCall(key, looked.ret)>> ELSE <<>>
             fetched == Fetcher(key[1], key[2], env)
             stored == IF use_cache THEN CacheSet(looked.cache, key, fetched.rate, t)
                       ELSE looked.cache
             log2 == Append(log1, FetchCall(key, env, fetched))
                        \o (IF use_cache THEN <<CacheSetCall(key, fetched.rate)>> ELSE <<>>)
         IN  IF IsHit(looked)
             THEN [cache |-> looked.cache,
                   out |-> [result |-> Some(Times(amount, looked.ret[1])), rate |-> looked.ret,
                            error |-> None, raised |-> None],
                   calls |-> log1]
             ELSE IF ~fetched.ok
             THEN Failure(looked.cache, UserMessage(fetched), Append(log1, FetchCall(key, env, fetched)))
             ELSE IF fetched.rate = None
             THEN \* amount * None raises TypeError
                  [cache |-> stored,
                   out |-> [result |-> None, rate |-> None, error |-> None,
                            raised |-> Some("TypeError")],
                   calls |-> log2]
             ELSE [cache |-> stored,
                   out |-> [result |-> Some(Times(amount, fetched.rate)),
                            rate |-> Some(fetched.rate), error |-> None, raised |-> None],
                   calls |-> log2]

Amounts == {0, 3}

SvcInit ==
    /\ NoSession /\ NoTraffic /\ NoWindow
    /\ cache = <<>>
    /\ max_size \in {1, 2}
    /\ ttl = MaxTTL
    /\ now = 0
    /\ use_cache \in BOOLEAN
    /\ conv = 1
    /\ stored_by = {}
    /\ req = [name |-> "init", currency |-> <<>>, date |-> <<>>, amount |-> 0]
    /\ out = [result |-> None, rate |-> None, error |-> None, raised |-> None]
    /\ calls = <<>>
    /\ pre = <<>>
    /\ preNow = 0
    /\ op = [name |-> "init", key |-> <<"", "">>, rate |-> 0]
    /\ ret = None
    /\ touch = <<>>
    /\ th = <<>>
    /\ ver = 0
    /\ cache0 = <<>>

SvcFrozen ==
    UNCHANGED <<max_size, ttl, now, use_cache, conv, op, ret, touch, concVars, sessVars, ioVars>>

\* who stored what, after a converter call that left the cache c2 and made the
\* calls of log: the entries gone are forgotten, the key set is the caller's
StoredBy(c2, log) ==
    LET sets == {log[j].key : j \in {i \in 1..Len(log) : log[i].fn = "cache.set"}}
    IN  {p \in stored_by : Has(c2, p[1]) /\ p[1] \notin sets} \cup {<<k, conv>> : k \in sets}

GetRate(currency, date, env) ==
    \E r \in {GetRateImpl(cache, currency, date, env, now)} :
    /\ cache' = r.cache
    /\ out' = r.out
    /\ calls' = r.calls
    /\ stored_by' = StoredBy(r.cache, r.calls)
    /\ req' = [name |-> "get_rate", currency |-> currency, date |-> date, amount |-> 0]
    /\ pre' = cache
    /\ preNow' = now
    /\ SvcFrozen

Convert(amount, currency, date, env) ==
    \E r \in {ConvertImpl(cache, amount, currency, date, env, now)} :
    /\ cache' = r.cache
    /\ out' = r.out
    /\ calls' = r.calls
    /\ stored_by' = StoredBy(r.cache, r.calls)
    /\ req' = [name |-> "convert", currency |-> currency, date |-> date, amount |-> amount]
    /\ pre' = cache
    /\ preNow' = now
    /\ SvcFrozen

\* the answers worth telling apart for a request: one that fails validation
\* never reaches the fetcher, so a single answer stands for all of them
AnswersTo(r, amount, answers) ==
    IF /\ amount > 0
       /\ NormalizedOf[r.currency] # None
       /\ NormalizedOf[r.currency][1] \in SUPPORTED_CURRENCIES
       /\ DateErrorOf[r.date] = None
    THEN answers
    ELSE {CHOOSE f \in answers : TRUE}

SvcNext ==
    \/ \E r \in Requests : \E f \in AnswersTo(r, 1, SvcResponses) :
           GetRate(r.currency, r.date, f)
    \/ \E a \in Amounts, r \in Requests : \E f \in AnswersTo(r, a, SvcResponses) :
           Convert(a, r.currency, r.date, f)
    \/ Tick

SvcSpec == SvcInit /\ [][SvcNext]_vars

\* the converter with get_currency_rate patched by a stub
StubNext ==
    \/ \E r \in Requests : \E f \in AnswersTo(r, 1, Stubs) : GetRate(r.currency, r.date, f)
    \/ \E a \in Amounts, r \in Requests : \E f \in AnswersTo(r, a, Stubs) :
           Convert(a, r.currency, r.date, f)
    \/ Tick

StubSpec == SvcInit /\ [][StubNext]_vars

\* ------------------- several converters over the global cache (cache.py, converter)
MaxConverters == 3   \* CurrencyConverter instances constructed

\* a get_cache that builds a CurrencyCache of its own for every caller
GetCache_Fresh(c) == <<>>

\* get_cache(): the module's _global_cache, whoever asks
GetCache(c) == c

\* requests for one date: a code to trim and uppercase, and plain codes
PoolRequests ==
    {r \in Requests :
        /\ Strip(r.date) = <<"0", "1", ".", "1", "2", ".", "2", "0", "2", "4">>
        /\ Upper(Strip(r.currency)) \in {USD, EUR}}

\* an answer with the rates of USD and EUR, and the timeout
PoolResponses ==
    {f \in SvcResponses :
        f.kind # "ok" \/ (Len(f.valutes) = 2 /\ f.valutes[2].nominal = Some(<<"1", "0", "0">>))}

PoolInit ==
    /\ NoSession /\ NoTraffic /\ NoWindow
    /\ cache = <<>>
    /\ max_size \in {1, 2}
    /\ ttl = MaxTTL
    /\ now = 0
    /\ use_cache \in BOOLEAN
    /\ conv = 1
    /\ stored_by = {}
    /\ req = [name |-> "init", currency |-> <<>>, date |-> <<>>, amount |-> 0]
    /\ out = [result |-> None, rate |-> None, error |-> None, raised |-> None]
    /\ calls = <<>>
    /\ pre = <<>>
    /\ preNow = 0
    /\ op = [name |-> "init", key |-> <<"", "">>, rate |-> 0]
    /\ ret = None
    /\ touch = <<>>
    /\ th = <<>>
    /\ ver = 0
    /\ cache0 = <<>>

\* a call that is no get_rate or convert: what it leaves in req, out and calls
Other(name) ==
    /\ req' = [name |-> name, currency |-> <<>>, date |-> <<>>, amount |-> 0]
    /\ out' = [result |-> None, rate |-> None, error |-> None, raised |-> None]
    /\ calls' = <<>>
    /\ pre' = cache
    /\ preNow' = now
    /\ UNCHANGED <<max_size, ttl, now, op, ret, touch, concVars, sessVars, ioVars>>

\* CurrencyConverter(use_cache=uc): the caller goes on with the new converter
NewConverter(uc) ==
    /\ conv < MaxConverters
    /\ conv' = conv + 1
    /\ use_cache' = uc
    /\ cache' = IF uc THEN GetCache(cache) ELSE cache
    /\ stored_by' = {q \in stored_by : Has(cache', q[1])}
    /\ Other("__init__")

\* get_cache().clear()
ClearCache ==
    /\ cache' = CacheClear(GetCache(cache))
    /\ stored_by' = {}
    /\ UNCHANGED <<use_cache, conv>>
    /\ Other("clear")

PoolNext ==
    \/ \E uc \in BOOLEAN : NewConverter(uc)
    \/ \E r \in PoolRequests : \E f \in AnswersTo(r, 1, PoolResponses) :
           GetRate(r.currency, r.date, f)
    \/ \E a \in Amounts, r \in PoolRequests : \E f \in AnswersTo(r, a, PoolResponses) :
           Convert(a, r.currency, r.date, f)
    \/ ClearCache
    \/ Tick

PoolSpec == PoolInit /\ [][PoolNext]_vars

\* ------------------------------------------- get_currency_rate, call by call
MaxValutes == 2   \* documents hold up to MaxValutes records

HUF == <<"H", "U", "F">>

\* Valute records: plain, quoted per 100, with a point, with spaces, and with a
\* missing, blank, unparsable, not-a-number, zero or negative field
ValuteSamples ==
    {Valute(Some(USD), Some(<<"1">>), Some(<<"9", "5", ",", "5", "0">>)),
     Valute(Some(HUF), Some(<<"1", "0", "0">>), Some(<<"2", "8", ",", "5", "0">>)),
     Valute(Some(USD), Some(<<"1", "0", "0">>), Some(<<"2", "8", ".", "5", "0">>)),
     Valute(Some(<<" ", "U", "S", "D", " ">>), Some(<<" ", "1", " ">>),
            Some(<<" ", "9", "5", ",", "5", "0", " ">>)),
     Valute(None, Some(<<"1">>), Some(<<"9", "5", ",", "5", "0">>)),
     Valute(Some(USD), None, Some(<<"9", "5", ",", "5", "0">>)),
     Valute(Some(USD), Some(<<"1">>), None),
     Valute(Some(USD), Some(<<"x">>), Some(<<"9", "5", ",", "5", "0">>)),
     Valute(Some(USD), Some(<<"1">>), Some(<<"x">>)),
     Valute(Some(USD), Some(<<" ">>), Some(<<"9", "5", ",", "5", "0">>)),
     Valute(Some(USD), Some(<<"1">>), Some(<<"n", "a", "n">>)),
     Valute(Some(USD), Some(<<"0">>), Some(<<"9", "5", ",", "5", "0">>)),
     Valute(Some(EUR), Some(<<"1">>), Some(<<"-", "1", ",", "5">>)),
     Valute(Some(<<"u", "s", "d">>), Some(<<"1">>), Some(<<"1">>))}

RECURSIVE ValuteLists(_)
ValuteLists(n) ==
    IF n = 0 THEN {<<>>}
    ELSE ValuteLists(n - 1)
            \cup {Append(l, v) : l \in {x \in ValuteLists(n - 1) : Len(x) = n - 1},
                                 v \in ValuteSamples}

\* what the transport can answer
Responses ==
    {Throws(k) : k \in {"Timeout", "ConnectionError", "HTTPError", "ValueError"}}
        \cup {Body(FALSE, "", <<>>), Body(TRUE, "Error", <<>>)}
        \cup {Body(TRUE, "ValCurs", l) : l \in ValuteLists(MaxValutes)}

\* the arguments of get_currency_rate
FetchRequests ==
    {[name |-> "get_currency_rate", currency |-> cu,
      date |-> <<"0", "1", ".", "1", "2", ".", "2", "0", "2", "4">>, amount |-> 0,
      timeout |-> t, resp |-> r] :
        cu \in {USD, <<" ", "u", "s", "d", " ">>, EUR, HUF}, t \in {5, DefaultTimeout},
        r \in Responses}

FetchInit ==
    /\ NoSession /\ NoTraffic /\ NoWindow
    /\ req \in FetchRequests
    /\ calls = <<>>
    /\ out = [result |-> None, rate |-> None, error |-> None, raised |-> None]
    /\ cache = <<>>
    /\ max_size = 1
    /\ ttl = MaxTTL
    /\ now = 0
    /\ use_cache = FALSE
    /\ conv = 1
    /\ stored_by = {}
    /\ pre = <<>>
    /\ preNow = 0
    /\ op = [name |-> "init", key |-> <<"", "">>, rate |-> 0]
    /\ ret = None
    /\ touch = <<>>
    /\ th = <<>>
    /\ ver = 0
    /\ cache0 = <<>>

\* one call of get_currency_rate
Fetch ==
    /\ calls = <<>>
    /\ calls' = <<FetchCall(<<req.currency, req.date>>, req.resp,
                            GetCurrencyRate(req.currency, req.date, req.timeout, req.resp))>>
    /\ UNCHANGED <<cacheVars, concVars, use_cache, req, out, conv, stored_by, sessVars, ioVars>>

FetchNext == Fetch

FetchSpec == FetchInit /\ [][FetchNext]_vars

\* --------------------------------------- get_session / reset_session (cbr_parser)
MaxResets == 2   \* reset_session runs up to MaxResets times

\* a thread between calls, and at the program points of get_session
SessFrame(pc, res, epoch) == [pc |-> pc, res |-> res, epoch |-> epoch]

SessInit ==
    /\ NoSession /\ NoTraffic /\ NoWindow
    /\ th = [t \in Threads |-> SessFrame("idle", None, 0)]
    /\ cache = <<>>
    /\ max_size = 1
    /\ ttl = MaxTTL
    /\ now = 0
    /\ op = [name |-> "init", key |-> <<"", "">>, rate |-> 0]
    /\ ret = None
    /\ pre = <<>>
    /\ preNow = 0
    /\ touch = <<>>
    /\ ver = 0
    /\ cache0 = <<>>
    /\ use_cache = TRUE
    /\ conv = 1
    /\ stored_by = {}
    /\ req = [name |-> "init", currency |-> <<>>, date |-> <<>>, amount |-> 0]
    /\ out = [result |-> None, rate |-> None, error |-> None, raised |-> None]
    /\ calls = <<>>

SessFrozen == UNCHANGED <<cacheVars, ver, cache0, svcVars, ioVars>>

At(t, pc) == th[t].pc = pc
Step(t, pc) == th' = [th EXCEPT ![t].pc = pc]

\* a second test that always finds no session
IsNone_Always(s) == TRUE

\* "_session is None" inside the lock (line 111)
IsNone(s) == s = None

\* a thread calls get_session; epoch notes the resets so far
GsCall(t) ==
    /\ th[t].pc \in {"idle", "done"}
    /\ th' = [th EXCEPT ![t] = SessFrame("test", None, resets)]
    /\ UNCHANGED sessVars /\ SessFrozen

\* line 108: if _session is None
GsTest(t) ==
    /\ At(t, "test")
    /\ Step(t, IF session = None THEN "acquire" ELSE "return")
    /\ UNCHANGED sessVars /\ SessFrozen

\* line 109: with _session_lock
GsAcquire(t) ==
    /\ At(t, "acquire") /\ session_lock = 0
    /\ session_lock' = t
    /\ Step(t, "retest")
    /\ UNCHANGED <<session, made, resets, closed>> /\ SessFrozen

\* lines 111-112: the second test, and create_session_with_retry
GsCreate(t) ==
    /\ At(t, "retest")
    /\ IF IsNone(session)
       THEN session' = Some(<<resets, made + 1>>) /\ made' = made + 1
       ELSE UNCHANGED <<session, made>>
    /\ Step(t, "release")
    /\ UNCHANGED <<session_lock, resets, closed>> /\ SessFrozen

\* a with block that keeps the lock when it ends
ExitWith_Keep(t) == t

\* the lock as the with block of its holder t leaves it: free
ExitWith(t) == 0

\* the end of the with block
GsRelease(t) ==
    /\ At(t, "release")
    /\ session_lock' = ExitWith(t)
    /\ Step(t, "return")
    /\ UNCHANGED <<session, made, resets, closed>> /\ SessFrozen

\* line 113: return _session
GsReturn(t) ==
    /\ At(t, "return")
    /\ th' = [th EXCEPT ![t].pc = "done", ![t].res = session]
    /\ UNCHANGED sessVars /\ SessFrozen

\* a reset_session that closes the session and keeps the handle
ResetSession_KeepHandle ==
    /\ session_lock = 0
    /\ resets < MaxResets
    /\ closed' = IF session = None THEN closed ELSE closed \cup {session[1]}
    /\ resets' = resets + 1
    /\ UNCHANGED <<session, made, session_lock, th>> /\ SessFrozen

\* reset_session, by another caller: under the lock, if there is a session,
\* close it and forget it (lines 126-129)
ResetSession ==
    /\ session_lock = 0
    /\ resets < MaxResets
    /\ IF session = None
       THEN UNCHANGED <<session, made, closed>>
       ELSE /\ closed' = closed \cup {session[1]}
            /\ session' = None
            /\ made' = 0
    /\ resets' = resets + 1
    /\ UNCHANGED <<session_lock, th>> /\ SessFrozen

SessNext ==
    \/ \E t \in Threads : GsCall(t)
    \/ \E t \in Threads : GsTest(t)
    \/ \E t \in Threads : GsAcquire(t)
    \/ \E t \in Threads : GsCreate(t)
    \/ \E t \in Threads : GsRelease(t)
    \/ \E t \in Threads : GsReturn(t)
    \/ ResetSession

SessSpec == SessInit /\ [][SessNext]_vars

\* ------------- get_rate in several threads: cache, session and request (converter)
\* Each thread runs CurrencyConverter.get_rate for a valid key: cache.get, on a
\* miss get_currency_rate (get_session, then session.get, which stays pending
\* until the transport answers), then cache.set.  The cache calls are taken
\* whole here; their inner steps are those of ConcSpec.
RateFrame(pc, k, res, epoch) == [pc |-> pc, key |-> k, res |-> res, epoch |-> epoch]

FlightInit ==
    /\ NoSession /\ NoTraffic /\ NoWindow
    /\ th = [t \in Threads |-> RateFrame("idle", NoKey, None, 0)]
    /\ cache = <<>>
    /\ max_size = 2
    /\ ttl = MaxTTL
    /\ now = 0
    /\ op = [name |-> "init", key |-> <<"", "">>, rate |-> 0]
    /\ ret = None
    /\ pre = <<>>
    /\ preNow = 0
    /\ touch = <<>>
    /\ ver = 0
    /\ cache0 = <<>>
    /\ use_cache = TRUE
    /\ conv = 1
    /\ stored_by = {}
    /\ req = [name |-> "init", currency |-> <<>>, date |-> <<>>, amount |-> 0]
    /\ out = [result |-> None, rate |-> None, error |-> None, raised |-> None]
    /\ calls = <<>>

FlightFrozen ==
    UNCHANGED <<max_size, ttl, now, op, ret, pre, preNow, touch, ver, cache0, svcVars,
                sessVars, ioVars>>

\* get_rate(currency, date) is called with a valid key
GrCall(t, k) ==
    /\ At(t, "idle")
    /\ th' = [th EXCEPT ![t] = RateFrame("cache_get", k, None, resets)]
    /\ UNCHANGED cache /\ FlightFrozen

\* get_rate, lines 117-121: rate = self._cache.get(...); a hit returns
GrCacheGet(t) ==
    /\ At(t, "cache_get")
    /\ cache' = CacheGet(cache, th[t].key, now).cache
    /\ Step(t, IF CacheGet(cache, th[t].key, now).ret # None THEN "idle" ELSE "test")
    /\ FlightFrozen

\* get_currency_rate, line 179: session.get is called on what get_session
\* returned; on None the call raises at once (AttributeError)
FcRequest(t) ==
    /\ At(t, "done")
    /\ Step(t, IF th[t].res = None THEN "idle" ELSE "pending")
    /\ UNCHANGED cache /\ FlightFrozen

\* the transport answers the pending request: with a rate, or with a failure
\* that get_rate turns into a message
FcRespond(t, ok) ==
    /\ At(t, "pending")
    /\ Step(t, IF ok THEN "cache_set" ELSE "idle")
    /\ UNCHANGED cache /\ FlightFrozen

\* get_rate, lines 124-125: self._cache.set(...), and the return
GrCacheSet(t) ==
    /\ At(t, "cache_set")
    /\ cache' = CacheSet(cache, th[t].key, 1, now)
    /\ Step(t, "idle")
    /\ FlightFrozen

FlightNext ==
    \/ \E t \in Threads, k \in Keys : GrCall(t, k)
    \/ \E t \in Threads : GrCacheGet(t)
    \/ \E t \in Threads : GsTest(t)
    \/ \E t \in Threads : GsAcquire(t)
    \/ \E t \in Threads : GsCreate(t)
    \/ \E t \in Threads : GsRelease(t)
    \/ \E t \in Threads : GsReturn(t)
    \/ \E t \in Threads : FcRequest(t)
    \/ \E t \in Threads, ok \in BOOLEAN : FcRespond(t, ok)
    \/ \E t \in Threads : GrCacheSet(t)
    \/ ResetSession

FlightSpec == FlightInit /\ [][FlightNext]_vars

\* --------------------------------------------- CurrencyConverterApp (gui.py)
MaxClicks == 2   \* conversions started from the window

\* the thread that runs root.mainloop(), and the threads _on_convert starts
UiThread == <<"ui", 0>>
Worker(w) == <<"worker", w>>

\* worker.run() in place of worker.start(): the target runs in the caller
StartedOn_Run(w) == UiThread

\* the thread in which the target of the w-th threading.Thread runs once
\* worker.start() was called
StartedOn(w) == Worker(w)

\* the text of result_label: a fixed text, an error message, or a formatted result
Label(kind, text, shown) == [kind |-> kind, text |-> text, shown |-> shown]

\* what parse_amount made of the amount field: None, or the amount
ParsedAmounts == {None} \cup {Some(a) : a \in Amounts}

\* the dates typed in date_entry: a valid one and one in the future
GuiDates ==
    {<<"0", "1", ".", "1", "2", ".", "2", "0", "2", "4">>,
     <<"1", "6", ".", "1", "2", ".", "2", "0", "2", "4">>}

\* a worker thread and its locals
WorkerFrame(on, amount, currency, date) ==
    [pc |-> "convert", on |-> on, amount |-> amount, currency |-> currency, date |-> date,
     outcome |-> [result |-> None, rate |-> None, error |-> None]]

\* __init__ and _create_widgets: the window as it opens
GuiInit ==
    /\ NoSession /\ NoTraffic
    /\ widgets = [convert_button |-> "normal", copy_button |-> "disabled",
                  result_label |-> Label("prompt", "Ukazhite datu i summu konvertatsii", None),
                  by |-> UiThread, via |-> "init"]
    /\ scheduled = <<>>
    /\ th = <<>>
    /\ cache = <<>>
    /\ max_size = 2
    /\ ttl = MaxTTL
    /\ now = 0
    /\ op = [name |-> "init", key |-> <<"", "">>, rate |-> 0]
    /\ ret = None
    /\ pre = <<>>
    /\ preNow = 0
    /\ touch = <<>>
    /\ ver = 0
    /\ cache0 = <<>>
    /\ use_cache = TRUE
    /\ conv = 1
    /\ stored_by = {}
    /\ req = [name |-> "init", currency |-> <<>>, date |-> <<>>, amount |-> 0]
    /\ out = [result |-> None, rate |-> None, error |-> None, raised |-> None]
    /\ calls = <<>>

GuiFrozen ==
    UNCHANGED <<max_size, ttl, now, op, ret, pre, preNow, touch, ver, cache0, use_cache, req,
                out, conv, sessVars, http>>

\* _show_error, run by thread who through the Tk mechanism via
ShowError(w, message, who, via) ==
    [w EXCEPT !.result_label = Label("error", message, None), !.copy_button = "disabled",
              !.by = who, !.via = via]

\* an _on_convert that starts the worker and leaves convert_button enabled
OnConvert_NoDisable(amount, currency, date) ==
    /\ widgets.convert_button = "normal"
    /\ IF amount = None
       THEN /\ widgets' = ShowError(widgets, "Nekorrektnoe znachenie summy", UiThread, "command")
            /\ UNCHANGED th
       ELSE /\ Len(th) < MaxClicks
            /\ widgets' = [widgets EXCEPT !.copy_button = "disabled",
                                          !.result_label = Label("busy", "Poluchayu kurs...", None),
                                          !.by = UiThread, !.via = "command"]
            /\ th' = Append(th, WorkerFrame(StartedOn(Len(th) + 1), amount[1], Upper(Strip(currency)),
                                            date))
    /\ UNCHANGED <<cache, calls, stored_by, scheduled>> /\ GuiFrozen

\* _on_convert, the command of convert_button, which Tk runs in the main loop
\* and only while the button is enabled
OnConvert(amount, currency, date) ==
    /\ widgets.convert_button = "normal"
    /\ IF amount = None
       THEN /\ widgets' = ShowError(widgets, "Nekorrektnoe znachenie summy", UiThread, "command")
            /\ UNCHANGED th
       ELSE /\ Len(th) < MaxClicks
            /\ widgets' = [widgets EXCEPT !.copy_button = "disabled",
                                          !.convert_button = "disabled",
                                          !.result_label = Label("busy", "Poluchayu kurs...", None),
                                          !.by = UiThread, !.via = "command"]
            /\ th' = Append(th, WorkerFrame(StartedOn(Len(th) + 1), amount[1], Upper(Strip(currency)),
                                            date))
    /\ UNCHANGED <<cache, calls, stored_by, scheduled>> /\ GuiFrozen

\* _perform_conversion, lines 177-181: converter.convert, any exception caught
PerformConversion(w, env) ==
    /\ th[w].pc = "convert"
    /\ LET r == ConvertImpl(cache, th[w].amount, th[w].currency, th[w].date, env, now)
           outcome == IF r.out.raised # None
                      THEN [result |-> None, rate |-> None,
                            error |-> Some("Ne udalos vypolnit konvertatsiyu")]
                      ELSE [result |-> r.out.result, rate |-> r.out.rate, error |-> r.out.error]
       IN  /\ cache' = r.cache
           /\ calls' = Append(calls, [fn |-> "convert", thread |-> th[w].on, made |-> r.calls])
           /\ th' = [th EXCEPT ![w].pc = "after", ![w].outcome = outcome]
           /\ stored_by' = StoredBy(r.cache, r.calls)
    /\ UNCHANGED <<widgets, scheduled>> /\ GuiFrozen

\* _perform_conversion, lines 183-186: root.after(0, lambda: _finish_conversion(...))
ScheduleFinish(w) ==
    /\ th[w].pc = "after"
    /\ scheduled' = Append(scheduled, [fn |-> "_finish_conversion", amount |-> th[w].amount,
                                       currency |-> th[w].currency,
                                       outcome |-> th[w].outcome])
    /\ th' = [th EXCEPT ![w].pc = "dead"]
    /\ UNCHANGED <<cache, calls, stored_by, widgets>> /\ GuiFrozen

\* a _finish_conversion that enables convert_button only next to a result
FinishConversion_OnlyOnResult ==
    /\ scheduled # <<>>
    /\ scheduled' = Tail(scheduled)
    /\ LET cb == Head(scheduled)
           w1 == [widgets EXCEPT !.convert_button =
                                     IF cb.outcome.error # None THEN @ ELSE "normal",
                                 !.by = UiThread, !.via = "after"]
       IN  widgets' =
               IF cb.outcome.error # None
               THEN ShowError(w1, cb.outcome.error[1], UiThread, "after")
               ELSE IF cb.outcome.result # None /\ cb.outcome.rate # None
               THEN [w1 EXCEPT !.result_label =
                                   Label("result", "",
                                         Some([amount |-> cb.amount, rate |-> cb.outcome.rate[1],
                                               currency |-> cb.currency,
                                               result |-> cb.outcome.result[1]])),
                               !.copy_button = "normal"]
               ELSE w1
    /\ UNCHANGED <<cache, calls, stored_by, th>> /\ GuiFrozen

\* the main loop runs the next scheduled callback: _finish_conversion
FinishConversion ==
    /\ scheduled # <<>>
    /\ scheduled' = Tail(scheduled)
    /\ LET cb == Head(scheduled)
           w1 == [widgets EXCEPT !.convert_button = "normal", !.by = UiThread, !.via = "after"]
       IN  widgets' =
               IF cb.outcome.error # None
               THEN ShowError(w1, cb.outcome.error[1], UiThread, "after")
               ELSE IF cb.outcome.result # None /\ cb.outcome.rate # None
               THEN [w1 EXCEPT !.result_label =
                                   Label("result", "",
                                         Some([amount |-> cb.amount, rate |-> cb.outcome.rate[1],
                                               currency |-> cb.currency,
                                               result |-> cb.outcome.result[1]])),
                               !.copy_button = "normal"]
               ELSE w1
    /\ UNCHANGED <<cache, calls, stored_by, th>> /\ GuiFrozen

GuiNext ==
    \/ \E a \in ParsedAmounts, cu \in {USD, EUR}, d \in GuiDates : OnConvert(a, cu, d)
    \/ \E w \in 1..Len(th), f \in Stubs : PerformConversion(w, f)
    \/ \E w \in 1..Len(th) : ScheduleFinish(w)
    \/ FinishConversion

GuiSpec == GuiInit /\ [][GuiNext]_vars

\* a started thread runs its target to the end (convert returns or raises: the
\* request has a timeout and the retries are bounded), and the main loop runs
\* the callbacks handed to root.after
GuiFairness ==
    /\ WF_vars(\E w \in 1..Len(th), f \in Stubs : PerformConversion(w, f))
    /\ WF_vars(\E w \in 1..Len(th) : ScheduleFinish(w))
    /\ WF_vars(FinishConversion)

GuiLiveSpec == GuiSpec /\ GuiFairness

\* ------------------------ the retry policy of the session's adapter (cbr_parser)
\* Retry(total=3, status_forcelist=[429, 500, 502, 503, 504], allowed_methods=["GET"])
\* mounted through HTTPAdapter(max_retries=...): total is the number of retries
\* the transport may make after the first attempt
RetryTotal == 3
StatusForcelist == {429, 500, 502, 503, 504}
AllowedMethods == {"GET"}

\* how one HTTP attempt ends: a response with a status, or a transport error
\* (connect: no connection was made; read: the connection broke or timed out
\* while the response was awaited)
Answered(status) == [kind |-> "response", status |-> status]
Broke(kind) == [kind |-> kind, status |-> 0]

Outcomes ==
    {Answered(st) : st \in {200, 404} \cup StatusForcelist} \cup {Broke("connect"), Broke("read")}

\* Retry.is_retry: the response asks for another attempt
IsRetry(method, status) == method \in AllowedMethods /\ status \in StatusForcelist

\* Retry.increment accepts the outcome: a listed status, any connection error,
\* and a read error when the method is an allowed one
Retried(method, o) ==
    IF o.kind = "response" THEN IsRetry(method, o.status)
    ELSE o.kind = "connect" \/ method \in AllowedMethods

\* what session.get gives its caller once the budget is spent: RetryError after
\* responses, ConnectionError after transport errors
Exhausted(o) ==
    IF o.kind = "response" THEN Broke("RetryError") ELSE Broke("ConnectionError")

RetryInit ==
    /\ NoSession /\ NoTraffic /\ NoWindow
    /\ th = <<>>
    /\ cache = <<>>
    /\ max_size = 1
    /\ ttl = MaxTTL
    /\ now = 0
    /\ op = [name |-> "init", key |-> <<"", "">>, rate |-> 0]
    /\ ret = None
    /\ pre = <<>>
    /\ preNow = 0
    /\ touch = <<>>
    /\ ver = 0
    /\ cache0 = <<>>
    /\ use_cache = TRUE
    /\ conv = 1
    /\ stored_by = {}
    /\ req = [name |-> "init", currency |-> <<>>, date |-> <<>>, amount |-> 0]
    /\ out = [result |-> None, rate |-> None, error |-> None, raised |-> None]
    /\ calls = <<>>

RetryFrozen == UNCHANGED <<cacheVars, concVars, svcVars, sessVars, widgets, scheduled>>

\* line 179: session.get(url, timeout=timeout) hands the request to the adapter
SessionGet ==
    /\ http.state = "idle"
    /\ http' = [state |-> "sending", method |-> "GET", total |-> RetryTotal,
                attempts |-> <<>>, result |-> None]
    /\ RetryFrozen

\* one HTTP attempt ends in o; the transport retries it or gives up
Attempt(o) ==
    /\ http.state = "sending"
    /\ LET log == Append(http.attempts, o) IN
       IF ~Retried(http.method, o)
       THEN http' = [http EXCEPT !.state = "done", !.attempts = log, !.result = Some(o)]
       ELSE IF http.total - 1 < 0
       THEN http' = [http EXCEPT !.state = "done", !.attempts = log,
                                 !.result = Some(Exhausted(o))]
       ELSE http' = [http EXCEPT !.total = @ - 1, !.attempts = log]
    /\ RetryFrozen

\* session.get returns or raises; the session is ready for the next call
SessionGot ==
    /\ http.state = "done"
    /\ http' = [state |-> "idle", method |-> "", total |-> 0, attempts |-> <<>>,
                result |-> None]
    /\ RetryFrozen

RetryNext ==
    \/ SessionGet
    \/ \E o \in Outcomes : Attempt(o)
    \/ SessionGot

RetrySpec == RetryInit /\ [][RetryNext]_vars

\* ================================================================ claims
\* the entries of c whose age at time t exceeds the TTL, by position
ExpiredAt(c, t) == {i \in 1..Len(c) : t - c[i].at > ttl}

\* the last call was a set of a key not present, made on a full dictionary
SetNewOnFull == op.name = "set" /\ op.key \notin KeysOf(pre) /\ Len(pre) >= max_size

\* C1: after any sequence of set / get / cleanup_expired / clear calls by one
\* caller, for every capacity >= 1 and every TTL, size() <= capacity each time
\* a call has returned.
C1_SizeBounded == Size(cache) <= max_size

\* a set of a new key on a full cache has returned
C1_Witness == SetNewOnFull /\ Size(cache) = max_size

\* C4 (first half): with no entry expired, a set of a new key on a full cache
\* removes exactly one entry, the one whose latest set or successful get is the
\* oldest among the entries present.
C4_VictimIsOldest ==
    (SetNewOnFull /\ ExpiredAt(pre, preNow) = {}) =>
        LET order == SelectSeq(touch, LAMBDA k : k \in KeysOf(pre))
        IN  /\ KeysOf(pre) \ KeysOf(cache) = {order[1]}
            /\ KeysOf(cache) = (KeysOf(pre) \ {order[1]}) \cup {op.key}
            /\ Len(cache) = Len(pre)

\* the step is a set of a new key on a full cache with nothing expired, made
\* right after a get that returned a rate
C4_EvictAfterHit ==
    /\ op.name = "get" /\ ret # None
    /\ op'.name = "set" /\ op'.key \notin KeysOf(cache)
    /\ Len(cache) >= max_size /\ ExpiredAt(cache, now) = {}

\* C4 as stated: the key a get just returned is never the victim of the next
\* eviction (part two), together with part one.
C4_Original ==
    /\ []C4_VictimIsOldest
    /\ [][C4_EvictAfterHit => op.key \in KeysOf(cache')]_vars

\* C4 as amended: the key a get just returned is not the victim of the next
\* eviction when the cache holds at least one other entry; part one is unchanged.
C4_Amended ==
    /\ []C4_VictimIsOldest
    /\ [][(C4_EvictAfterHit /\ Len(cache) >= 2) => op.key \in KeysOf(cache')]_vars

\* an eviction with nothing expired happened in a cache of two or more entries
\* whose least recently used entry had been moved there by reads
C4_Witness ==
    /\ SetNewOnFull /\ ExpiredAt(pre, preNow) = {} /\ Len(pre) >= 2
    /\ pre[1].at > pre[2].at
    /\ pre[1].key \notin KeysOf(cache)

\* C5: get(k) never returns the rate of an entry whose age exceeds the TTL,
\* purged or not: it returns absent; a rate it returns is that of a live entry.
C5_NoStaleRead ==
    op.name = "get" =>
        /\ \A i \in 1..Len(pre) :
              (pre[i].key = op.key /\ preNow - pre[i].at > ttl) => ret = None
        /\ ret # None =>
              \E i \in 1..Len(pre) :
                  /\ pre[i].key = op.key
                  /\ ret = Some(pre[i].rate)
                  /\ preNow - pre[i].at <= ttl

\* a get met an expired entry that no cleanup had purged
C5_Witness ==
    /\ op.name = "get" /\ ret = None
    /\ \E i \in 1..Len(pre) : pre[i].key = op.key /\ preNow - pre[i].at > ttl

\* C6 (state part): after set(k, r) there is exactly one entry for k and it holds
\* r; when k was already present the size is unchanged and every other entry is
\* untouched, full cache or not.
C6_Update ==
    op.name = "set" =>
        /\ Cardinality({i \in 1..Len(cache) : cache[i].key = op.key}) = 1
        /\ cache[IndexOf(cache, op.key)].rate = op.rate
        /\ Has(pre, op.key) =>
              /\ Size(cache) = Size(pre)
              /\ Without(cache, op.key) = Without(pre, op.key)

\* C6 (step part): a get(k) that follows set(k, r) within the TTL returns r.
C6_ReadBack ==
    (op.name = "set" /\ op'.name = "get" /\ op'.key = op.key /\ now - preNow <= ttl)
        => ret' = Some(op.rate)

\* C6: set then get returns the rate set; an update keeps one entry and the size.
C6_SetThenGet == []C6_Update /\ [][C6_ReadBack]_vars

\* a full cache of several entries had the rate of a present key replaced
C6_Witness ==
    /\ op.name = "set" /\ Has(pre, op.key)
    /\ Len(pre) = max_size /\ max_size >= 2
    /\ pre[IndexOf(pre, op.key)].rate # op.rate

\* C7: a set of a new key on a full cache that holds an expired entry purges the
\* expired entries and keeps every live one; a live entry goes only when the
\* purge left the cache at capacity.
C7_ExpiredFirst ==
    SetNewOnFull =>
        LET expired == ExpiredAt(pre, preNow)
            lost == {i \in 1..Len(pre) : pre[i].key \notin KeysOf(cache)}
        IN  /\ expired # {} => lost = expired
            /\ (lost \ expired) # {} => Len(pre) - Cardinality(expired) >= max_size
            /\ \A i \in (1..Len(pre)) \ lost : \E j \in 1..Len(cache) : cache[j] = pre[i]

\* the least recently used entry was live, another was expired, and the live one stayed
C7_Witness ==
    /\ SetNewOnFull
    /\ ExpiredAt(pre, preNow) # {}
    /\ 1 \notin ExpiredAt(pre, preNow)
    /\ pre[1].key \in KeysOf(cache)

\* C8: cleanup_expired removes exactly the entries older than the TTL, returns
\* how many it removed, and leaves the live entries as they were, in their order.
C8_CleanupExact ==
    op.name = "cleanup_expired" =>
        /\ \A i \in 1..Len(pre) :
              (preNow - pre[i].at > ttl) <=> (pre[i].key \notin KeysOf(cache))
        /\ \A j \in 1..Len(cache) : \E i \in 1..Len(pre) : pre[i] = cache[j]
        /\ \A j1, j2 \in 1..Len(cache) :
              j1 < j2 => IndexOf(pre, cache[j1].key) < IndexOf(pre, cache[j2].key)
        /\ ret = Some(Len(pre) - Len(cache))

\* a cleanup removed entries and kept others
C8_Witness ==
    /\ op.name = "cleanup_expired"
    /\ Len(cache) >= 1
    /\ Len(pre) - Len(cache) >= 1
    /\ ret = Some(Len(pre) - Len(cache))

\* the keys set or read successfully so far
Touches == {touch[i] : i \in 1..Len(touch)}

\* C24 (state part): when clear() has returned, size() is 0 whatever the cache held.
C24_Emptied == op.name = "clear" => Size(cache) = 0

\* C24 (step part): from an empty cache every call but a set leaves the cache
\* empty, and a get returns absent for every key.
C24_StaysEmpty ==
    (Size(cache) = 0 /\ op'.name # "set") =>
        /\ Size(cache') = 0
        /\ op'.name = "get" => ret' = None

\* C24: after clear() size() is 0 and get returns absent for every key until
\* the next set.
C24_ClearEmpties == []C24_Emptied /\ [][C24_StaysEmpty]_vars

\* a key that had been set, with nothing expired and room for every key, was
\* read after a clear and was absent
C24_Witness ==
    /\ op.name = "get" /\ ret = None /\ pre = <<>>
    /\ op.key \in Touches
    /\ now = 0 /\ max_size >= Cardinality(Keys)

\* the last call was a get of a key whose entry had expired
GetOfExpired ==
    /\ op.name = "get"
    /\ \E i \in 1..Len(pre) : pre[i].key = op.key /\ preNow - pre[i].at > ttl

\* C28: a get on a key whose entry has expired returns absent and removes that
\* entry: size() drops by one, and the other entries stay as they were, in
\* their order.
C28_ExpiredGetRemoves ==
    GetOfExpired =>
        /\ ret = None
        /\ ~Has(cache, op.key)
        /\ Size(cache) = Size(pre) - 1
        /\ cache = Without(pre, op.key)

\* the expired entry read stood between two others, which stayed
C28_Witness ==
    /\ GetOfExpired
    /\ Len(pre) >= 3 /\ pre[2].key = op.key
    /\ cache = <<pre[1], pre[3]>>

\* C29 (step part): a get that returns a rate leaves the entry last in the
\* order, with the rate and the storedAt it had before the call.
C29_ReadKeepsStamp ==
    (op'.name = "get" /\ ret' # None) =>
        /\ Has(cache, op'.key)
        /\ cache'[Len(cache')] = cache[IndexOf(cache, op'.key)]
        /\ ret' = Some(cache[IndexOf(cache, op'.key)].rate)

\* C29 (step part): the storedAt of an entry changes only when its key is set,
\* and a set (a step that is no tick of the clock) stamps the entry with the
\* time of the call.
C29_OnlySetStamps ==
    /\ cache' # cache =>
           \A i \in 1..Len(cache), j \in 1..Len(cache') :
               (cache'[j].key = cache[i].key /\ ~(op'.name = "set" /\ op'.key = cache[i].key))
                   => cache'[j].at = cache[i].at
    /\ (op'.name = "set" /\ now' = now) => cache'[IndexOf(cache', op'.key)].at = now

\* C29 (state part): a get made after storedAt + TTL returns absent.
C29_AbsentAfterTTL ==
    (op.name = "get" /\ Has(pre, op.key)
        /\ preNow > pre[IndexOf(pre, op.key)].at + ttl) => ret = None

\* C29: a successful get moves the entry to the most recently used position and
\* keeps its storedAt, so an entry set at time t is absent for every get after
\* t + TTL however often it was read, unless it was set again.
C29_ReadsDoNotRenew ==
    /\ [][C29_ReadKeepsStamp /\ C29_OnlySetStamps]_vars
    /\ []C29_AbsentAfterTTL

\* an entry stored earlier was read, moved from the front to the end and kept
\* its storedAt
C29_Witness ==
    /\ op.name = "get" /\ ret # None
    /\ Len(pre) >= 2 /\ pre[1].key = op.key
    /\ cache[Len(cache)] = pre[1]
    /\ pre[1].at < preNow

\* C37 (step part): a cleanup_expired call removes an entry if and only if a get
\* of its key at the same instant returns absent, and it keeps an entry whose
\* age equals the TTL, for which that get returns the rate.
C37_CleanupAsGet ==
    (op'.name = "cleanup_expired" /\ now' = now) =>
        \A i \in 1..Len(cache) :
            /\ (cache[i].key \notin KeysOf(cache'))
                   <=> (CacheGet(cache, cache[i].key, now).ret = None)
            /\ now - cache[i].at = ttl =>
                   /\ cache[i].key \in KeysOf(cache')
                   /\ CacheGet(cache, cache[i].key, now).ret = Some(cache[i].rate)

\* C37 (step part): a get returns absent for a stored key exactly when its age
\* is strictly greater than the TTL.
C37_GetStrict ==
    (op'.name = "get" /\ now' = now /\ Has(cache, op'.key)) =>
        ((ret' = None) <=> (now - cache[IndexOf(cache, op'.key)].at > ttl))

\* C37: get and cleanup_expired use the same expiry predicate, age strictly
\* greater than the TTL; an entry whose age equals the TTL is live for both.
C37_SameExpiry == [][C37_CleanupAsGet /\ C37_GetStrict]_vars

\* a cleanup kept an entry whose age was exactly the TTL and removed an older one
C37_Witness ==
    /\ op.name = "cleanup_expired"
    /\ \E i \in 1..Len(pre) : preNow - pre[i].at = ttl /\ pre[i] \in {cache[j] : j \in 1..Len(cache)}
    /\ \E i \in 1..Len(pre) : preNow - pre[i].at > ttl /\ pre[i].key \notin KeysOf(cache)

\* what a call returns and leaves behind when it runs alone, start to end
SeqApply(c, call) ==
    IF call.name = "get"
    THEN [cache |-> CacheGet(c, call.key, now).cache,
          res |-> Returned(CacheGet(c, call.key, now).ret)]
    ELSE IF call.name = "set"
    THEN [cache |-> CacheSet(c, call.key, call.rate, now), res |-> Returned(None)]
    ELSE [cache |-> CleanupExpired(c, now).cache,
          res |-> Returned(Some(CleanupExpired(c, now).ret))]

OnlyGetSet == \A t \in Threads : th[t].call.name \in {"get", "set"}

\* C2: every interleaving of get and set calls from several threads is atomic:
\* once the calls have returned, each call's result and the final cache content
\* are those of the same calls run one after the other in some order.
C2_Atomic ==
    (AllDone /\ OnlyGetSet) =>
        \E a \in Threads :
            LET b == CHOOSE x \in Threads : x # a
                s1 == SeqApply(cache0, th[a].call)
                s2 == SeqApply(s1.cache, th[b].call)
            IN  /\ th[a].res = s1.res
                /\ th[b].res = s2.res
                /\ cache = s2.cache

\* the keys the threads' set calls insert
KeysSet == {th[t].call.key : t \in {x \in Threads : th[x].call.name = "set"}}

\* C3: with threads calling set and get concurrently on disjoint and on
\* overlapping keys (no entry expired), no call raises, and once all calls have
\* returned size() is the number of distinct keys inserted, capped at the
\* capacity.
C3_NoRaiseSizeExact ==
    (AllDone /\ OnlyGetSet /\ ExpiredAt(cache0, now) = {}) =>
        /\ \A t \in Threads : th[t].res.kind = "return"
        /\ Size(cache) = Min(Cardinality(KeysOf(cache0) \cup KeysSet), max_size)

\* every thread calls set, each with a key of its own that the cache did not hold
SetsOfNewKeys ==
    /\ \A t \in Threads : th[t].call.name = "set" /\ th[t].call.key \notin KeysOf(cache0)
    /\ \A t, u \in Threads : t # u => th[t].call.key # th[u].call.key

\* C25: while several threads call set concurrently with distinct new keys,
\* size() never exceeds the capacity, in any state the calls pass through or
\* end in, also when the cache started one entry below capacity.
C25_SetsKeepBound == SetsOfNewKeys => Size(cache) <= max_size

\* every thread calls cleanup_expired
OnlyCleanups == \A t \in Threads : th[t].call.name = "cleanup_expired"

\* the counts the calls returned, added up
RECURSIVE SumOfCounts(_)
SumOfCounts(ts) ==
    IF ts = {} THEN 0
    ELSE LET t == CHOOSE x \in ts : TRUE
         IN  (IF th[t].res.kind = "return" /\ th[t].res.val # None THEN th[t].res.val[1] ELSE 0)
                 + SumOfCounts(ts \ {t})

\* C26: cleanup_expired called from several threads at once, alone or next to
\* set and get, never raises, and when only cleanups ran the counts they
\* returned add up to the number of entries removed.
C26_CleanupOnce ==
    AllDone =>
        /\ \A t \in Threads : th[t].call.name = "cleanup_expired" => th[t].res.kind = "return"
        /\ OnlyCleanups => SumOfCounts(Threads) = Len(cache0) - Len(cache)

\* ---- the converter's claims (SvcSpec)
ServiceCall(q) == q.name \in {"get_rate", "convert"}

\* the cache key of a request: trimmed, uppercased code and trimmed date
ReqKey(q) == <<Upper(Strip(q.currency)), Strip(q.date)>>

TwoDigits(n) == <<DigitChars[(n \div 10) + 1], DigitChars[(n % 10) + 1]>>
DayTexts(n) == IF n < 10 THEN {TwoDigits(n), <<DigitChars[n + 1]>>} ELSE {TwoDigits(n)}
YearText(y) == TwoDigits(y \div 100) \o TwoDigits(y % 100)

\* the texts day.month.year (zero padding optional) of the calendar dates of
\* the years around Today that are not later than Today
PastDateTexts ==
    UNION {UNION {UNION {{dt \o <<".">> \o mt \o <<".">> \o YearText(y) :
                             dt \in DayTexts(d), mt \in DayTexts(m)} :
                         d \in {x \in 1..DaysIn(m, y) :
                                   y < Today.y \/ m < Today.m \/ (m = Today.m /\ x <= Today.d)}} :
                  m \in {x \in 1..12 : y < Today.y \/ x <= Today.m}} :
           y \in {Today.y - 1, Today.y}}

\* the request is one the claim says must be rejected
Rejectable(q) ==
    \/ Upper(Strip(q.currency)) \notin {<<"U", "S", "D">>, <<"E", "U", "R">>}
    \/ Strip(q.date) \notin PastDateTexts
    \/ q.name = "convert" /\ q.amount <= 0

\* key k has an entry in c that is live at time t
LiveIn(c, k, t) == \E i \in 1..Len(c) : c[i].key = k /\ t - c[i].at <= ttl

Fetched == \E j \in 1..Len(calls) : calls[j].fn = "get_currency_rate"

\* C9 (state part): with caching enabled the fetcher is called only when the
\* key has no live entry, a live entry is returned without a fetch, and after a
\* successful call the rate returned is stored under the key.
C9_FetchOnMiss ==
    (use_cache /\ ServiceCall(req) /\ ~Rejectable(req)) =>
        LET key == ReqKey(req) IN
        /\ Fetched <=> ~LiveIn(pre, key, preNow)
        /\ Fetched => calls[1] = CacheGetCall(key, None)
        /\ out.error = None =>
              \E i \in 1..Len(cache) :
                  /\ cache[i].key = key
                  /\ out.rate = Some(cache[i].rate)
                  /\ Fetched => cache[i].at = preNow

\* C9 (step part): a request for the key of the successful request before it,
\* made while the stored entry is within the TTL, returns the same rate and
\* makes no fetcher call.
C9_HitAgain ==
    (/\ use_cache /\ ServiceCall(req) /\ out.error = None
     /\ now' = now /\ ServiceCall(req')
     /\ ReqKey(req') = ReqKey(req)
     /\ LiveIn(cache, ReqKey(req), now)
     /\ ~Rejectable(req) /\ ~Rejectable(req'))
        => /\ out'.rate = out.rate
           /\ \A j \in 1..Len(calls') : calls'[j].fn # "get_currency_rate"

\* C9: the fetcher is called only on a cache miss, and a stored rate serves the
\* next request for the key.
C9_CacheInFront == []C9_FetchOnMiss /\ [][C9_HitAgain]_vars

\* a request was served from the cache, by an entry stored by an earlier fetch
C9_Witness ==
    /\ use_cache /\ ServiceCall(req) /\ ~Rejectable(req)
    /\ calls = <<CacheGetCall(ReqKey(req), out.rate)>>
    /\ out.rate # None /\ out.error = None

CacheCalls == {j \in 1..Len(calls) : calls[j].fn \in {"cache.get", "cache.set"}}

\* C32: a CurrencyConverter built with use_cache=False never reads or writes the
\* global cache: each valid get_rate or convert call invokes the fetcher exactly
\* once, and the content of the global cache is unchanged by the call.
C32_NoCacheNoAccess ==
    (~use_cache /\ ServiceCall(req)) =>
        /\ CacheCalls = {}
        /\ cache = pre
        /\ ~Rejectable(req) =>
              /\ Len(calls) = 1
              /\ calls[1].fn = "get_currency_rate"
              /\ calls[1].key = ReqKey(req)

\* a converter without caching fetched a rate for a key that another converter
\* had stored and that was live in the global cache
C32_Witness ==
    /\ ~use_cache /\ ServiceCall(req) /\ ~Rejectable(req)
    /\ out.error = None /\ out.rate # None
    /\ LiveIn(pre, ReqKey(req), preNow)
    /\ \E q \in stored_by : q[1] = ReqKey(req) /\ q[2] # conv
    /\ Len(calls) = 1

\* C33 (state part): a caching converter's valid call for a key with a live
\* entry in the global cache, whichever converter stored it, returns the stored
\* rate without a fetch.
C33_HitForAll ==
    (use_cache /\ ServiceCall(req) /\ ~Rejectable(req) /\ LiveIn(pre, ReqKey(req), preNow)) =>
        /\ ~Fetched
        /\ out.error = None
        /\ out.rate = Some(pre[IndexOf(pre, ReqKey(req))].rate)

\* C33 (step part): constructing a converter leaves the global cache as it is,
\* and an entry leaves the cache only by a clear, by a converter call that
\* stores a key (eviction) or by a read after its TTL.
C33_CacheOutlives ==
    /\ conv' # conv => cache' = cache
    /\ \A i \in 1..Len(cache) :
           (~Has(cache', cache[i].key) /\ now' = now) =>
               \/ req'.name = "clear"
               \/ \E j \in 1..Len(calls') : calls'[j].fn = "cache.set"
               \/ now - cache[i].at > ttl

\* C33: get_cache() always returns the same CurrencyCache instance, so a rate
\* stored through one caching converter is a cache hit for every other
\* converter of the process until it expires, is evicted or the cache is cleared.
C33_OneGlobalCache == []C33_HitForAll /\ [][C33_CacheOutlives]_vars

\* a caching converter was served from an entry that another converter stored
C33_Witness ==
    /\ use_cache /\ ServiceCall(req) /\ ~Rejectable(req)
    /\ ~Fetched /\ out.rate # None
    /\ \E q \in stored_by : q[1] = ReqKey(req) /\ q[2] # conv

\* the requests written like q or otherwise that make the cache key of q
SameKeyAs(q) == {r \in PoolRequests : ReqKey(r) = ReqKey(q)}

\* C34: the cache key is the trimmed, uppercased code and the trimmed date: a
\* valid request reads, fetches and stores under that key, and after it
\* succeeded every request that differs from it only in the letter case of the
\* code or in whitespace around the code or date, made while the entry is
\* within the TTL, is a hit on that entry, whatever the transport would answer.
C34_KeyIsNormalized ==
    (use_cache /\ ServiceCall(req) /\ ~Rejectable(req)) =>
        /\ \A j \in 1..Len(calls) : calls[j].key = ReqKey(req)
        /\ (out.error = None /\ LiveIn(cache, ReqKey(req), now)) =>
              \A r \in SameKeyAs(req), f \in PoolResponses :
                  LET hit == <<CacheGetCall(ReqKey(req), out.rate)>>
                      g == GetRateImpl(cache, r.currency, r.date, f, now)
                      c == ConvertImpl(cache, 3, r.currency, r.date, f, now)
                  IN  /\ g.calls = hit /\ g.out.rate = out.rate /\ g.out.error = None
                      /\ c.calls = hit /\ c.out.rate = out.rate /\ c.out.error = None

\* a request whose code had to be trimmed and uppercased and whose date had to
\* be trimmed was served from the entry under the normalized key, and the
\* request written plainly would be served from it too
C34_Witness ==
    /\ use_cache /\ ServiceCall(req) /\ ~Rejectable(req)
    /\ req.currency # ReqKey(req)[1] /\ req.date # ReqKey(req)[2]
    /\ calls = <<CacheGetCall(ReqKey(req), out.rate)>> /\ out.rate # None
    /\ Cardinality(SameKeyAs(req)) >= 2
    /\ LiveIn(cache, ReqKey(req), now)

\* ---- convert and get_rate side by side, and expiry (SvcSpec)
\* what the transport answered to the last call; when the call made no request
\* the answer plays no part, and any one stands for it
LastAnswer ==
    IF Fetched
    THEN calls[CHOOSE j \in 1..Len(calls) : calls[j].fn = "get_currency_rate"].env
    ELSE CHOOSE f \in SvcResponses : TRUE

\* amount x r for a positive amount and the rate r
Product(amount, r) == [num |-> amount * r.num, den |-> r.den]

\* C35: from the cache state and with the transport's answer of the last call,
\* a convert with a positive amount returned (amount x r, r, None) exactly when
\* get_rate returns (r, None), the same message exactly when get_rate returns
\* one, and left the cache that get_rate leaves; and the other way round for a
\* get_rate call and convert.
C35_ConvertAsGetRate ==
    /\ (req.name = "convert" /\ req.amount > 0) =>
           LET g == GetRateImpl(pre, req.currency, req.date, LastAnswer, preNow)
           IN  /\ g.cache = cache
               /\ out.raised = None /\ g.out.raised = None
               /\ g.out.error = out.error
               /\ g.out.rate = out.rate
               /\ (out.error = None) <=> (out.rate # None)
               /\ out.error = None => out.result = Some(Product(req.amount, g.out.rate[1]))
               /\ out.error # None => out.result = None
    /\ req.name = "get_rate" =>
           \A a \in {x \in Amounts : x > 0} :
               LET c == ConvertImpl(pre, a, req.currency, req.date, LastAnswer, preNow)
               IN  /\ c.cache = cache
                   /\ c.out.error = out.error
                   /\ c.out.rate = out.rate
                   /\ out.error = None => c.out.result = Some(Product(a, out.rate[1]))
                   /\ out.error # None => c.out.result = None

\* a convert fetched, stored and returned amount x r, as get_rate would have
\* fetched, stored and returned r
C35_Witness ==
    /\ req.name = "convert" /\ req.amount > 0
    /\ use_cache /\ Fetched /\ out.error = None
    /\ cache # pre
    /\ out.result = Some(Product(req.amount, out.rate[1]))
    /\ GetRateImpl(pre, req.currency, req.date, LastAnswer, preNow).cache = cache

\* the last call asked for a key whose entry was older than the TTL
AskedExpired ==
    /\ use_cache /\ ServiceCall(req) /\ ~Rejectable(req)
    /\ \E i \in 1..Len(pre) : pre[i].key = ReqKey(req) /\ preNow - pre[i].at > ttl

\* C36: once an entry's age exceeds the TTL the next get_rate or convert for its
\* key calls the fetcher again and on success stores the fetched rate with the
\* time of the call; what it returns is the fetched rate or the fetcher's
\* error, never the expired entry.
C36_ExpiredRefetched ==
    AskedExpired =>
        LET key == ReqKey(req) IN
        /\ Len(calls) >= 2
        /\ calls[1] = CacheGetCall(key, None)
        /\ calls[2].fn = "get_currency_rate" /\ calls[2].key = key
        /\ calls[2].ret.ok =>
              /\ out.error = None
              /\ out.rate = Some(calls[2].ret.rate)
              /\ cache[Len(cache)] = Entry(key, calls[2].ret.rate, preNow)
        /\ ~calls[2].ret.ok =>
              /\ out.error # None /\ out.rate = None
              /\ ~Has(cache, key)

\* an expired entry was replaced by a different rate, which was returned
C36_Witness ==
    /\ AskedExpired
    /\ out.error = None
    /\ out.rate # Some(pre[IndexOf(pre, ReqKey(req))].rate)
    /\ cache[Len(cache)].at = preNow /\ preNow > 0

\* ---- errors of the fetcher seen through the converter (SvcSpec)
\* the positions in the call log of the fetcher calls that raised
RaisedAt == {j \in 1..Len(calls) : calls[j].fn = "get_currency_rate" /\ ~calls[j].ret.ok}

\* the sentences get_user_message can return
UserTexts ==
    {"Prevysheno vremya ozhidaniya otveta ot servera. Proverte podklyuchenie k internetu.",
     "Ne udalos podklyuchitsya k serveru CB RF. Proverte podklyuchenie k internetu.",
     "Oshibka soedineniya s serverom. Poprobuite pozzhe.",
     "Kurs valyuty ne naiden dlya ukazannoi daty.",
     "Oshibka pri obrabotke dannyh s servera. Poprobuite druguyu datu."}

\* nothing is returned but the user-facing message derived from the error, one
\* of the fixed sentences, which carry none of the error's own text
C11_MessageOnly ==
    \A j \in RaisedAt :
        /\ out.rate = None /\ out.result = None /\ out.raised = None
        /\ out.error = Some(UserMessage(calls[j].ret))
        /\ out.error[1] \in UserTexts

\* C11 as stated: when the fetcher raises, get_rate and convert return only the
\* derived user-facing message, and the cache content is exactly what it was
\* before the call.
C11_Original ==
    (ServiceCall(req) /\ RaisedAt # {}) => (C11_MessageOnly /\ cache = pre)

\* C11, amended: when the fetcher raises, get_rate and convert return only the
\* derived user-facing message, and the cache holds the entries it held before
\* the call, in the same order, less an expired entry of the requested key,
\* which the lookup removes; nothing is added.
C11_Amended ==
    (ServiceCall(req) /\ RaisedAt # {}) =>
        /\ C11_MessageOnly
        /\ cache = SelectSeq(pre, LAMBDA e : e.key # ReqKey(req))
        /\ \A i \in 1..Len(pre) : pre[i].key = ReqKey(req) => preNow - pre[i].at > ttl

\* the fetcher raised on a request whose key had an expired entry, which is gone
C11_Witness ==
    /\ ServiceCall(req) /\ RaisedAt # {}
    /\ \E i \in 1..Len(pre) : pre[i].key = ReqKey(req)
    /\ Len(cache) = Len(pre) - 1
    /\ Len(cache) >= 1

\* num / den is greater than zero
Positive(r) == r.num * r.den > 0

\* C17: every rate get_rate returns without an error, and every rate in the
\* cache, is strictly positive.
C17_PositiveRates ==
    /\ (req.name = "get_rate" /\ out.error = None) => (out.rate # None /\ Positive(out.rate[1]))
    /\ \A i \in 1..Len(cache) : Positive(cache[i].rate)

\* the document of the call is a ValCurs document with no record of the code
Absent(call) ==
    /\ call.env.kind = "ok" /\ call.env.wellformed /\ call.env.root = "ValCurs"
    /\ \A i \in 1..Len(call.env.valutes) :
           \/ call.env.valutes[i].code = None
           \/ Strip(call.env.valutes[i].code[1]) # call.key[1]

\* C18: a fetch that fails because the document lacks the currency gives the
\* message that the rate was not found for the date, a fetch that times out
\* gives a message telling the user to check the connection, and get_rate and
\* convert return these messages as they are.
C18_Messages ==
    \A j \in 1..Len(calls) :
        calls[j].fn = "get_currency_rate" =>
            /\ Absent(calls[j]) =>
                   /\ ~calls[j].ret.ok /\ calls[j].ret.cls = "CBRParseError"
                   /\ out.error = Some("Kurs valyuty ne naiden dlya ukazannoi daty.")
            /\ calls[j].env.kind = "Timeout" =>
                   /\ ~calls[j].ret.ok /\ calls[j].ret.cls = "CBRConnectionError"
                   /\ out.error \in
                        {Some("Prevysheno vremya ozhidaniya otveta ot servera. Proverte podklyuchenie k internetu."),
                         Some("Ne udalos podklyuchitsya k serveru CB RF. Proverte podklyuchenie k internetu.")}

\* get_rate reported a currency that the document did not list
C18_Witness ==
    /\ req.name = "get_rate"
    /\ \E j \in 1..Len(calls) : calls[j].fn = "get_currency_rate" /\ Absent(calls[j])
    /\ out.error = Some("Kurs valyuty ne naiden dlya ukazannoi daty.")

\* ---- the converter over a stubbed fetcher (StubSpec)
\* C20: when the fetcher returns None without raising, convert returns
\* (None, None, error) with a message; it does not raise and returns no result.
C20_NoRateIsAnError ==
    (/\ req.name = "convert"
     /\ \E j \in 1..Len(calls) :
            calls[j].fn = "get_currency_rate" /\ calls[j].ret.ok /\ calls[j].ret.rate = None)
        => /\ out.raised = None
           /\ out.result = None /\ out.rate = None
           /\ out.error # None

\* ---- get_currency_rate (FetchSpec)
\* get_currency_rate has been called and has finished
Fetching == req.name = "get_currency_rate" /\ calls # <<>>

\* the document is well formed and has the root ValCurs
IsValCurs(resp) == resp.kind = "ok" /\ resp.wellformed /\ resp.root = "ValCurs"

\* the records of the document whose CharCode is the requested code
Listed(q) ==
    {i \in 1..Len(q.resp.valutes) :
        /\ q.resp.valutes[i].code # None
        /\ Strip(q.resp.valutes[i].code[1]) = Upper(Strip(q.currency))}

\* the first of them
FirstListed(q) == q.resp.valutes[CHOOSE i \in Listed(q) : \A j \in Listed(q) : i <= j]

\* the text holds a character that no number has
NotNumeric(text) ==
    \E i \in 1..Len(text) : ~IsDigit(text[i]) /\ text[i] \notin {" ", "+", "-", ",", "."}

\* the text holds a character that no number has, and is none of the words
\* float() reads
Unparsable(text) ==
    NotNumeric(text) /\ Upper(Signed(Strip(text)).rest) \notin (NanWords \cup InfWords)

\* the record lacks Nominal or Value, or int() or float() cannot read them
BadFields(v) ==
    \/ v.nominal = None \/ v.value = None
    \/ NotNumeric(v.nominal[1]) \/ Unparsable(v.value[1])

\* C13: a call of get_currency_rate returns a rate or raises CBRConnectionError
\* or CBRParseError and nothing else; a timeout gives CBRConnectionError naming
\* the timeout, a connection failure CBRConnectionError, and a malformed
\* document, another root tag, an absent currency or a missing or unparsable
\* Nominal or Value gives CBRParseError.
C13_OnlyTwoErrors ==
    Fetching =>
        LET r == calls[1].ret IN
        /\ r.ok => r.rate # None
        /\ (r.ok /\ r.rate.den = 0) => ~Unparsable(FirstListed(req).value[1])
        /\ ~r.ok => r.cls \in {"CBRConnectionError", "CBRParseError"}
        /\ req.resp.kind = "Timeout" =>
               ~r.ok /\ r.cls = "CBRConnectionError"
                     /\ \E i \in 1..Len(r.message.args) : r.message.args[i] = req.timeout
        /\ req.resp.kind = "ConnectionError" => ~r.ok /\ r.cls = "CBRConnectionError"
        /\ (req.resp.kind = "ok" /\ ~IsValCurs(req.resp)) => ~r.ok /\ r.cls = "CBRParseError"
        /\ (IsValCurs(req.resp) /\ Listed(req) = {}) => ~r.ok /\ r.cls = "CBRParseError"
        /\ (IsValCurs(req.resp) /\ Listed(req) # {} /\ BadFields(FirstListed(req))) =>
               ~r.ok /\ r.cls = "CBRParseError"

\* a call with timeout 5 timed out and the error names the 5
C13_Witness ==
    /\ Fetching /\ req.resp.kind = "Timeout" /\ req.timeout = 5
    /\ calls[1].ret.message.args = <<5>>

C15_HttpIsConnectionError ==
    (Fetching /\ req.resp.kind = "HTTPError") =>
        /\ ~calls[1].ret.ok /\ calls[1].ret.cls = "CBRConnectionError"
        /\ Contains(calls[1].ret.message, <<"HTTP", "oshibka">>)

\* the numbers the sample texts denote, as num / den
NominalOf ==
    (<<"1">> :> 1) @@ (<<"1", "0", "0">> :> 100) @@ (<<" ", "1", " ">> :> 1)
ValueOf ==
    (<<"9", "5", ",", "5", "0">> :> [num |-> 9550, den |-> 100])
        @@ (<<"2", "8", ",", "5", "0">> :> [num |-> 2850, den |-> 100])
        @@ (<<"2", "8", ".", "5", "0">> :> [num |-> 2850, den |-> 100])
        @@ (<<" ", "9", "5", ",", "5", "0", " ">> :> [num |-> 9550, den |-> 100])
        @@ (<<"-", "1", ",", "5">> :> [num |-> 0 - 15, den |-> 10])
        @@ (<<"1">> :> [num |-> 1, den |-> 1])

\* the record has a Nominal and a Value among the texts above
Readable(v) ==
    /\ v.nominal # None /\ v.nominal[1] \in DOMAIN NominalOf
    /\ v.value # None /\ v.value[1] \in DOMAIN ValueOf

\* C16: for a well-formed ValCurs document get_currency_rate returns
\* Value / Nominal of the first record whose CharCode is the trimmed, uppercased
\* code, reading a comma in Value as the decimal separator.
C16_ValueOverNominal ==
    (Fetching /\ IsValCurs(req.resp) /\ Listed(req) # {} /\ Readable(FirstListed(req))) =>
        LET v == FirstListed(req)
            r == calls[1].ret
        IN  /\ r.ok
            /\ r.rate.num * (ValueOf[v.value[1]].den * NominalOf[v.nominal[1]])
                  = ValueOf[v.value[1]].num * r.rate.den

\* Nominal 100 and Value 28,50 gave 0.285, and elsewhere Nominal 1 and Value
\* 95,50 give 95.50
C16_Witness ==
    /\ Fetching /\ IsValCurs(req.resp) /\ Listed(req) # {}
    /\ FirstListed(req).nominal = Some(<<"1", "0", "0">>)
    /\ FirstListed(req).value = Some(<<"2", "8", ",", "5", "0">>)
    /\ calls[1].ret.ok
    /\ calls[1].ret.rate.num * 1000 = 285 * calls[1].ret.rate.den

\* the text is empty once trimmed
Blank(text) == Strip(text) = <<>>

\* the record's Nominal or Value is missing, empty or non-numeric
NoNumberIn(v) ==
    \/ v.nominal = None \/ v.value = None
    \/ Blank(v.nominal[1]) \/ Blank(v.value[1])
    \/ NotNumeric(v.nominal[1]) \/ NotNumeric(v.value[1])

\* C23: when the first record whose CharCode matches has a missing, empty or
\* non-numeric Nominal or Value, get_currency_rate raises CBRParseError: it
\* returns no value, and does not go on to a later record.
C23_BadFieldRaises ==
    (Fetching /\ IsValCurs(req.resp) /\ Listed(req) # {} /\ NoNumberIn(FirstListed(req))) =>
        ~calls[1].ret.ok /\ calls[1].ret.cls = "CBRParseError"

\* ---- construction (CtorSpec)
\* C19: a cache with an invalid capacity (max_size <= 0) is never constructed,
\* so no call is served by one, and on a constructed cache no call of a single
\* caller raises.
C19_NoRaise == (op.name # "init" => max_size >= 1) /\ out.raised = None

\* ---- the shared session (SessSpec)
\* the threads whose get_session call began after the latest reset and has returned
ReturnedSinceReset == {t \in Threads : th[t].pc = "done" /\ th[t].epoch = resets}

\* C12: between two reset_session calls the concurrent get_session calls run
\* create_session_with_retry at most once, and each of them returns that one
\* session.
C12_OneSession ==
    /\ made <= 1
    /\ \A t \in ReturnedSinceReset : th[t].res # None /\ th[t].res = session

\* after a reset both threads have got the session, which was created once
C12_Witness ==
    /\ resets >= 1 /\ made = 1
    /\ ReturnedSinceReset = Threads
    /\ \A t \in Threads : th[t].res = session /\ session # None

\* C27: get_session never returns None: under every interleaving of
\* get_session and reset_session calls, each get_session call that has
\* returned gave a session object.
C27_NeverNone == \A t \in Threads : th[t].pc = "done" => th[t].res # None

\* the sessions the threads hold from calls that returned before the latest reset
HeldFromBefore ==
    {th[t].res[1] : t \in {u \in Threads : th[u].pc = "done" /\ th[u].res # None
                                              /\ th[u].res[1][1] < resets}}

\* C31 (state part): the handle never names a closed session, and a get_session
\* call that began after the latest reset returns a session created after that
\* reset, which is none of the sessions closed by it or before it.
C31_NewAfterReset ==
    /\ session # None => session[1] \notin closed
    /\ \A t \in ReturnedSinceReset :
           /\ th[t].res # None
           /\ th[t].res[1][1] = resets
           /\ th[t].res[1] \notin closed \cup HeldFromBefore

\* C31 (step part): a reset_session call with a session closes that session and
\* clears the handle; with no session it closes nothing and leaves the handle,
\* the lock and the threads as they were.
C31_ResetCloses ==
    resets' # resets =>
        /\ session' = None
        /\ session # None => closed' = closed \cup {session[1]}
        /\ session = None => closed' = closed /\ made' = made
        /\ session_lock' = session_lock /\ th' = th

\* C31: reset_session closes the current session when one exists and clears the
\* handle, so the next get_session creates and returns a new session distinct
\* from the one before the reset; with no session it changes nothing.
C31_ResetRenews == []C31_NewAfterReset /\ [][C31_ResetCloses]_vars

\* one thread holds the session a reset closed, the other the session made
\* after that reset, and a reset found no session
C31_Witness ==
    /\ \E t \in ReturnedSinceReset, u \in Threads :
           /\ th[u].pc = "done" /\ th[u].res # None
           /\ th[u].res[1] \in closed
           /\ th[t].res # None /\ th[t].res # th[u].res
    /\ resets > Cardinality(closed)

\* ---- locks and the pending request (FlightSpec)
\* C30: while a thread's session.get is in progress that thread holds no lock
\* of the core, so no other thread is held up by it: its cache get and set and
\* its entry into get_session's with block can all take their step.
C30_NoLockInFlight ==
    \A t \in Threads :
        At(t, "pending") =>
            /\ session_lock # t
            /\ \A u \in Threads \ {t} :
                   /\ At(u, "cache_get") => ENABLED GrCacheGet(u)
                   /\ At(u, "cache_set") => ENABLED GrCacheSet(u)
                   /\ (At(u, "acquire") /\ session_lock \in {0, t}) => ENABLED GsAcquire(u)

\* with a request pending in one thread, the other took the session lock
C30_Witness ==
    \E t, u \in Threads : At(t, "pending") /\ u # t /\ session_lock = u

\* ---- the window (GuiSpec)
\* the converter's calls that reached the fetcher
NetworkCalls ==
    {j \in 1..Len(calls) :
        \E i \in 1..Len(calls[j].made) : calls[j].made[i].fn = "get_currency_rate"}

\* C22 (state part): every converter.convert call ran on a worker thread; the
\* widgets were last set by the UI thread, and a conversion's result is put on
\* the label only by a callback scheduled with root.after.
C22_OffTheUiThread ==
    /\ \A j \in 1..Len(calls) : calls[j].thread # UiThread
    /\ widgets.by = UiThread
    /\ widgets.result_label.kind = "result" => widgets.via = "after"

\* C22 (step part): the step in which convert runs changes no widget, and a
\* step that sets the widgets after a conversion takes a callback off the
\* root.after queue.
C22_WidgetsViaAfter ==
    /\ Len(calls') > Len(calls) => widgets' = widgets
    /\ (widgets' # widgets /\ widgets'.via = "after") => scheduled' = Tail(scheduled)

\* C22: in the GUI converter.convert, and with it every network call, runs only
\* on a worker thread, and the widgets are updated with its outcome only on the
\* UI thread, through the callback scheduled with root.after.
C22_ConvertOffUi == []C22_OffTheUiThread /\ [][C22_WidgetsViaAfter]_vars

\* a conversion that went to the network on a worker has its result on the label
C22_Witness ==
    /\ widgets.result_label.kind = "result"
    /\ NetworkCalls # {}
    /\ \A j \in NetworkCalls : calls[j].thread = Worker(j)

\* the workers started whose target has not run to its end
Running == {w \in 1..Len(th) : th[w].pc # "dead"}

\* the conversions in flight: the workers running, and the finish callbacks
\* waiting for the main loop
InFlight == Cardinality(Running) + Len(scheduled)

\* C38: at most one conversion worker is in flight at any time, and while one is
\* in flight, from the click that started it until its finish callback has
\* run, the convert button is disabled.
C38_OneWorker ==
    /\ InFlight <= 1
    /\ InFlight = 1 => widgets.convert_button = "disabled"

\* a second worker runs after the first ended and its callback ran
C38_Witness ==
    /\ Len(th) = 2 /\ th[1].pc = "dead" /\ th[2].pc = "convert"
    /\ scheduled = <<>>
    /\ widgets.convert_button = "disabled"

\* C39: every conversion started from the window re-enables the convert button
\* in the end, whether convert returned a result, returned an error or raised:
\* a disabled button always becomes enabled again.
C39_ButtonComesBack ==
    (widgets.convert_button = "disabled") ~> (widgets.convert_button = "normal")

\* the button is enabled again after a conversion in which convert raised
C39_Witness ==
    /\ widgets.convert_button = "normal" /\ widgets.via = "after"
    /\ widgets.result_label = Label("error", "Ne udalos vypolnit konvertatsiyu", None)
    /\ \E j \in 1..Len(calls) :
           \E i \in 1..Len(calls[j].made) :
               calls[j].made[i].fn = "get_currency_rate" /\ calls[j].made[i].ret.ok

\* ---- the retry policy (RetrySpec)
\* C21: one get_currency_rate call causes at most 3 HTTP attempts, and an
\* attempt after the first is made only for a GET request whose previous
\* response had status 429, 500, 502, 503 or 504; any other failure reaches the
\* caller after a single attempt.
C21_ThreeAttempts ==
    /\ Len(http.attempts) <= 3
    /\ \A i \in 2..Len(http.attempts) :
           /\ http.method = "GET"
           /\ http.attempts[i - 1].kind = "response"
           /\ http.attempts[i - 1].status \in {429, 500, 502, 503, 504}

====
